---- MODULE Spec2Model ----
(***************************************************************************)
(* NCI host stack (src/rust/nci/nci.rs): the command dispatcher task, the  *)
(* CommandSender that feeds it, the notification registry and the          *)
(* logical-connection registry with credit-based flow control,             *)
(* segmentation and reassembly.                                            *)
(***************************************************************************)
EXTENDS Integers, Sequences, FiniteSets, TLC

(***************************************************************************)
(* Bounds of the model.                                                    *)
(***************************************************************************)
MaxCmds == 2
MaxInFlight == 1
MaxSends == 2
MaxInData == 1
MaxGrants == 1
MaxLen == 4
MaxCalls == 2
MaxPackets == 4

(***************************************************************************)
(* Program constants.                                                      *)
(***************************************************************************)
CmdChannelCapacity == 10

Opcodes == {"CoreReset", "CoreInit"}
CmdIds == 1..MaxCmds
NoCmd == 0

VARIABLES
  cmds,         \* commands in submission order: [op, ntf]
  cmd_q,        \* cmd_tx/cmd_rx channel: queued command ids, FIFO
  sender_alive, \* the CommandSender (cmd_tx) has not been dropped
  abandoned,    \* commands whose send() future was dropped while awaiting
  pending,      \* dispatch: Option<PendingCommand> (NoCmd = None)
  timer,        \* dispatch: timeout armed (deadline /= max_deadline)
  handlers,     \* EventRegistry.handlers: Opcode -> registered command
  rsink,        \* state of each command's oneshot::Sender<Response>
  nsink,        \* state of each command's oneshot::Sender<Notification>
  got,          \* per command: which response was handed to its sink
  out_cmd,      \* hc.out_cmd_tx: commands handed to the transport
  in_cmd,       \* hc.in_cmd_rx: control packets from the HAL, FIFO
  answered,     \* how many commands of out_cmd the NFCC has answered
  rsp_seen,     \* how many Responses dispatch has taken from in_cmd
  timed_out,    \* commands discarded by the timer
  disp,         \* dispatch task: "running" | "panicked" | "blocked" | "terminated"
  fatal,        \* reason of the dispatcher's panic ("" = none)
  conns,        \* LogicalConnectionsRegistry.conns: Conn ID -> ConnectionParameters
  out_data,     \* hc.out_data_tx: the data packets handed to the transport,
                \* in order, by the connection that sent them since it opened
  cb_events,    \* invocations of each connection's callback, in order
  api,          \* the API task: "running" | "panicked" | "diverged"
  gh,           \* per connection, since it was opened: credits it was opened
                \* with, credit returns received, the send_packet calls (the
                \* packet given, the packets pushed onto sendq), whether it
                \* was flushed
  used,         \* how many inputs of each kind the run has consumed
  echoed,       \* how many packets of out_data were fed back (loopback run)
  api_call,     \* the NciApi call the API task is inside of ("idle" = none)
  api_ret,      \* the last return of an NciApi call, with the connections
                \* that were open when it was called
  ingress,      \* HAL dispatch_incoming task: "running" | "panicked" | "ended"
  in_data,      \* hc.in_data_rx: data packets forwarded by the HAL, FIFO
  hal_rx,       \* the frames dispatch_incoming has read: how many, the last
  devices,      \* Scene.devices[0]: the slot holds a Device
  logical_connections, \* Controller.logical_connections
  nci_out,      \* what the controller wrote to its nci_writer, in order
  emu_rx,       \* the packets Controller::run has read: how many, the last,
                \* and the CoreSetConfig commands this controller handled
  config_parameters, \* Controller.config_parameters: set of <<id, value>>
  device1,      \* Scene.devices[1]: 0 is None, k + 1 a Device whose
                \* controller has handled k packets
  add_device,   \* the last return of Scene::add_device
  rf_mailbox,   \* run: rf_rx, the (sender_id, payload) pairs not pulled yet
  rf_inbox,     \* Device.rf_tx / Controller.rf_rx of each slot, FIFO
  rf_log,       \* the (sender_id, payload) pairs run has pulled, in order
  scene_send,   \* the rf_tx.send(..) Scene::send is awaiting (<<>> = none)
  nci_write,    \* the last NciWriter::write: the packet, the segments written
  socket_in,    \* NciReader.socket: the segments not read yet
  read_ret      \* the last return of NciReader::read, the segments it took

\* the NciApi layer above the dispatcher and the registry
avars == <<api_call, api_ret>>

\* the HAL ingress task of the host
hvars == <<ingress, in_data, hal_rx>>

\* the emulator: the scene's device slot and its controller
rvars == <<rf_mailbox, rf_inbox, rf_log, scene_send>>

\* the NCI transport of the emulator
wvars == <<nci_write, socket_in, read_ret>>

evars == <<devices, logical_connections, nci_out, emu_rx, config_parameters,
           device1, add_device, rvars, wvars>>

xvars == <<hvars, evars>>

dvars == <<cmds, cmd_q, sender_alive, abandoned, pending, timer, handlers,
           rsink, nsink, got, out_cmd, in_cmd, answered, rsp_seen,
           timed_out, disp, fatal, avars, xvars>>

cvars == <<conns, out_data, cb_events, api, gh, used, echoed, avars, xvars>>

vars == <<dvars, cvars>>

Range(s) == {s[i] : i \in 1..Len(s)}

NoGot == [idx |-> 0, re |-> NoCmd]

Rsp(op, re) == [mt |-> "rsp", op |-> op, re |-> re, conns |-> <<>>]
Ntf(op) == [mt |-> "ntf", op |-> op, re |-> NoCmd, conns |-> <<>>]
OtherPkt == [mt |-> "other", op |-> "CoreReset", re |-> NoCmd, conns |-> <<>>]

DispInit ==
  /\ cmds = <<>>
  /\ cmd_q = <<>>
  /\ sender_alive = TRUE
  /\ abandoned = {}
  /\ pending = NoCmd
  /\ timer = FALSE
  /\ handlers = [o \in Opcodes |-> NoCmd]
  /\ rsink = [c \in CmdIds |-> "none"]
  /\ nsink = [c \in CmdIds |-> "none"]
  /\ got = [c \in CmdIds |-> NoGot]
  /\ out_cmd = <<>>
  /\ in_cmd = <<>>
  /\ answered = 0
  /\ rsp_seen = 0
  /\ timed_out = {}
  /\ disp = "running"
  /\ fatal = ""

ConnIds == 0..1

U8Max == 255

NoConn == [open |-> FALSE, callback |-> FALSE, max_payload_size |-> 0,
           nfcc_credits_avail |-> 0, sendq |-> <<>>, recvq |-> <<>>,
           mutex |-> "free"]

NoGhost == [c0 |-> 0, r |-> 0, calls |-> <<>>, flushed |-> FALSE]

Idle == [kind |-> "idle"]
NoRet == [kind |-> "none", n |-> 0]

ConnInit ==
  /\ conns = [c \in ConnIds |-> NoConn]
  /\ out_data = [c \in ConnIds |-> <<>>]
  /\ cb_events = [c \in ConnIds |-> <<>>]
  /\ api = "running"
  /\ gh = [c \in ConnIds |-> NoGhost]
  /\ used = [send |-> 0, data |-> 0, grant |-> 0]
  /\ echoed = 0
  /\ api_call = Idle
  /\ api_ret = NoRet

\* the HAL ingress task is spawned by init() and has read nothing
HalInit ==
  /\ ingress = "running"
  /\ in_data = <<>>
  /\ hal_rx = [n |-> 0, last |-> <<>>]

MAX_LOGICAL_CONNECTIONS == 2

Slots == 0..(MAX_LOGICAL_CONNECTIONS - 1)

\* Option<LogicalConnection>::None
NoLogicalConnection == [kind |-> "None"]

\* Scene::new and no controller yet
EmuInit ==
  /\ devices = "None"
  /\ logical_connections = [i \in Slots |-> NoLogicalConnection]
  /\ nci_out = <<>>
  /\ emu_rx = [n |-> 0, last |-> <<>>, sets |-> <<>>]
  /\ config_parameters = {}
  /\ device1 = 0
  /\ add_device = [res |-> "none", id |-> 0]
  /\ rf_mailbox = <<>>
  /\ rf_inbox = [id \in 0..1 |-> <<>>]
  /\ rf_log = <<>>
  /\ scene_send = <<>>
  /\ nci_write = [packet |-> <<>>, segments |-> <<>>]
  /\ socket_in = <<>>
  /\ read_ret = [packet |-> <<>>, taken |-> <<>>]

Init == DispInit /\ ConnInit /\ HalInit /\ EmuInit

(***************************************************************************)
(* CommandSender                                                           *)
(***************************************************************************)

\* the caller is inside send()/send_and_notify(), awaiting rx
CallerBusy == \E c \in CmdIds : rsink[c] = "open" /\ c \notin abandoned

\* CommandSender::send (ntf = FALSE) and send_and_notify (ntf = TRUE)
Submit(op, ntf) ==
  /\ sender_alive
  /\ disp = "running"
  /\ ~CallerBusy
  /\ Len(cmds) < MaxCmds
  /\ Len(cmd_q) < CmdChannelCapacity
  /\ LET c == Len(cmds) + 1 IN
       /\ cmds' = Append(cmds, [op |-> op, ntf |-> ntf])
       /\ cmd_q' = Append(cmd_q, c)
       /\ rsink' = [rsink EXCEPT ![c] = "open"]
       /\ nsink' = [nsink EXCEPT ![c] = IF ntf THEN "queued" ELSE "none"]
  /\ UNCHANGED <<sender_alive, abandoned, pending, timer, handlers, got,
                 out_cmd, in_cmd, answered, rsp_seen, timed_out, disp, fatal>>
  /\ UNCHANGED cvars

\* the future returned by send()/send_and_notify() is dropped at `rx.await`:
\* the receivers it holds are closed
Abandon ==
  /\ disp = "running"
  /\ \E c \in CmdIds :
       /\ rsink[c] = "open"
       /\ c \notin abandoned
       /\ abandoned' = abandoned \cup {c}
  /\ UNCHANGED <<cmds, cmd_q, sender_alive, pending, timer, handlers, rsink,
                 nsink, got, out_cmd, in_cmd, answered, rsp_seen, timed_out,
                 disp, fatal>>
  /\ UNCHANGED cvars

\* Drop for CommandSender (nfc_disable drops it)
DropCommandSender ==
  /\ disp = "running"
  /\ sender_alive
  /\ ~CallerBusy
  /\ sender_alive' = FALSE
  /\ UNCHANGED <<cmds, cmd_q, abandoned, pending, timer, handlers, rsink,
                 nsink, got, out_cmd, in_cmd, answered, rsp_seen, timed_out,
                 disp, fatal>>
  /\ UNCHANGED cvars

(***************************************************************************)
(* HAL side: what the NFCC puts into in_cmd_rx                             *)
(***************************************************************************)

\* the NFCC answers the oldest command it has not answered yet
HalRespond ==
  /\ disp = "running"
  /\ Len(in_cmd) < MaxInFlight
  /\ answered < Len(out_cmd)
  /\ LET c == out_cmd[answered + 1] IN
       in_cmd' = Append(in_cmd, Rsp(cmds[c].op, c))
  /\ answered' = answered + 1
  /\ UNCHANGED <<cmds, cmd_q, sender_alive, abandoned, pending, timer,
                 handlers, rsink, nsink, got, out_cmd, rsp_seen, timed_out,
                 disp, fatal>>
  /\ UNCHANGED cvars

\* any other control packet: an unsolicited response, a notification,
\* a packet that is neither
HalInject(m) ==
  /\ disp = "running"
  /\ Len(in_cmd) < MaxInFlight
  /\ in_cmd' = Append(in_cmd, m)
  /\ UNCHANGED <<cmds, cmd_q, sender_alive, abandoned, pending, timer,
                 handlers, rsink, nsink, got, out_cmd, answered, rsp_seen,
                 timed_out, disp, fatal>>
  /\ UNCHANGED cvars

(***************************************************************************)
(* dispatch                                                                *)
(***************************************************************************)

\* a panic unwinds the task: pending, ntfs, hc and cmd_rx are dropped, and
\* with them every sender the task owns; what is left in in_cmd_rx is never
\* taken
DroppedR(c) == IF rsink[c] = "open" THEN "dropped" ELSE rsink[c]
DroppedN(c) == IF nsink[c] \in {"queued", "registered"} THEN "dropped" ELSE nsink[c]

Panic(reason) ==
  /\ disp' = "panicked"
  /\ fatal' = reason
  /\ pending' = NoCmd
  /\ cmd_q' = <<>>
  /\ handlers' = [o \in Opcodes |-> NoCmd]
  /\ rsink' = [c \in CmdIds |-> DroppedR(c)]
  /\ nsink' = [c \in CmdIds |-> DroppedN(c)]

\* oneshot::Sender::send: Err when the receiver is gone
SendTo(c) == IF c \in abandoned THEN "undeliverable" ELSE "sent"

\* `if pending.is_none()` (select! precondition of the cmd_rx branch)
CanAcceptAlways == TRUE
CanAccept == pending = NoCmd

\* cmd_rx.recv(): the oldest queued command
RecvLast(q) == q[Len(q)]
Recv(q) == Head(q)

RemoveAt(q, c) == SelectSeq(q, LAMBDA x : x /= c)

\* EventRegistry::register: the sink of command c is stored under the opcode
RegisterNothing(h, code, c) == h
Register(h, code, c) == [h EXCEPT ![code] = c]

\* `qc = cmd_rx.recv(), if pending.is_none() => if let Some(queued) = qc`
DispatchQueued ==
  /\ disp = "running"
  /\ CanAccept
  /\ cmd_q /= <<>>
  /\ LET c == Recv(cmd_q)
         op == cmds[c].op IN
       IF cmds[c].ntf /\ handlers[op] /= NoCmd
       THEN \* EventRegistry::register: assert!(insert(..).is_none())
            /\ Panic("register")
            /\ UNCHANGED <<cmds, sender_alive, abandoned, timer, got, out_cmd,
                           in_cmd, answered, rsp_seen, timed_out>>
       ELSE /\ handlers' = IF cmds[c].ntf THEN Register(handlers, op, c)
                           ELSE handlers
            /\ nsink' = IF cmds[c].ntf THEN [nsink EXCEPT ![c] = "registered"]
                        ELSE nsink
            /\ out_cmd' = Append(out_cmd, c)
            /\ timer' = TRUE
            /\ pending' = c
            /\ cmd_q' = RemoveAt(cmd_q, c)
            /\ UNCHANGED <<cmds, sender_alive, abandoned, rsink, got, in_cmd,
                           answered, rsp_seen, timed_out, disp, fatal>>
  /\ UNCHANGED cvars

\* `qc = cmd_rx.recv() ... else { break }`: the channel is closed and empty
DispatchClosed ==
  /\ disp = "running"
  /\ CanAccept
  /\ cmd_q = <<>>
  /\ ~sender_alive
  /\ disp' = "terminated"
  /\ handlers' = [o \in Opcodes |-> NoCmd]
  /\ nsink' = [c \in CmdIds |-> DroppedN(c)]
  /\ UNCHANGED <<cmds, cmd_q, sender_alive, abandoned, pending, timer, rsink,
                 got, out_cmd, in_cmd, answered, rsp_seen, timed_out, fatal>>
  /\ UNCHANGED cvars

\* `Some(PendingCommand{cmd, response}) if cmd.get_op() == this_opcode`
OpcodeMatchesAny(c, op) == TRUE
OpcodeMatches(c, op) == cmds[c].op = op

\* NciPacketChild::Response(rsp)
DispatchResponse ==
  /\ disp = "running"
  /\ in_cmd /= <<>>
  /\ Head(in_cmd).mt = "rsp"
  /\ LET m == Head(in_cmd) IN
       /\ rsp_seen' = rsp_seen + 1
       /\ timer' = FALSE
       /\ in_cmd' = Tail(in_cmd)
       /\ IF pending /= NoCmd /\ OpcodeMatches(pending, m.op)
          THEN /\ rsink' = [rsink EXCEPT ![pending] = SendTo(pending)]
               /\ got' = [got EXCEPT ![pending] =
                            [idx |-> rsp_seen + 1, re |-> m.re]]
               /\ pending' = NoCmd
               /\ UNCHANGED <<cmd_q, handlers, nsink, disp, fatal>>
          ELSE /\ Panic(IF pending /= NoCmd THEN "response_mismatch"
                        ELSE "response_unexpected")
               /\ UNCHANGED got
  /\ UNCHANGED <<cmds, sender_alive, abandoned, out_cmd, answered, timed_out>>
  /\ UNCHANGED cvars

\* EventRegistry::unregister: remove and return the sink
UnregisterKeep(h, code) == h
Unregister(h, code) == [h EXCEPT ![code] = NoCmd]

\* NciPacketChild::Notification(ntfy), not a ConnCreditsNotification
DispatchNotification ==
  /\ disp = "running"
  /\ in_cmd /= <<>>
  /\ Head(in_cmd).mt = "ntf"
  /\ LET code == Head(in_cmd).op
         h == handlers[code] IN
       IF h /= NoCmd
       THEN /\ handlers' = Unregister(handlers, code)
            /\ nsink' = [nsink EXCEPT ![h] = SendTo(h)]
            /\ UNCHANGED <<cmd_q, pending, rsink, disp, fatal>>
       ELSE Panic("notification_unhandled")
  /\ in_cmd' = Tail(in_cmd)
  /\ UNCHANGED <<cmds, sender_alive, abandoned, timer, got, out_cmd, answered,
                 rsp_seen, timed_out>>
  /\ UNCHANGED cvars

\* `_ => error!("Unexpected NCI data received")`
DispatchUnexpected ==
  /\ disp = "running"
  /\ in_cmd /= <<>>
  /\ Head(in_cmd).mt = "other"
  /\ in_cmd' = Tail(in_cmd)
  /\ UNCHANGED <<cmds, cmd_q, sender_alive, abandoned, pending, timer,
                 handlers, rsink, nsink, got, out_cmd, answered, rsp_seen,
                 timed_out, disp, fatal>>
  /\ UNCHANGED cvars

\* `() = &mut timeout`
TimeoutKeepsPending(p) == p
TimeoutPending(p) == NoCmd

DispatchTimeout ==
  /\ disp = "running"
  /\ timer
  /\ timer' = FALSE
  /\ pending' = TimeoutPending(pending)
  /\ rsink' = IF pending /= NoCmd /\ pending' = NoCmd
              THEN [rsink EXCEPT ![pending] = "dropped"] ELSE rsink
  /\ timed_out' = IF pending /= NoCmd THEN timed_out \cup {pending}
                  ELSE timed_out
  /\ UNCHANGED <<cmds, cmd_q, sender_alive, abandoned, handlers, nsink, got,
                 out_cmd, in_cmd, answered, rsp_seen, disp, fatal>>
  /\ UNCHANGED cvars

(***************************************************************************)
(* DataPacket and its wire form                                            *)
(***************************************************************************)

DataPkt(conn_id, pbf, cr, payload) ==
  [conn_id |-> conn_id, pbf |-> pbf, cr |-> cr, payload |-> payload]

\* DataPacket::to_bytes: octet 0 = 0b000 | PBF | Conn ID, octet 1 = CR | RFU,
\* octet 2 = payload length, then the payload
ToBytes(pkt) ==
  << (IF pkt.pbf = "Incomplete" THEN 16 ELSE 0) + pkt.conn_id,
     pkt.cr * 64,
     Len(pkt.payload) >> \o pkt.payload

\* DataPacket::specialize: the payload variant
Specialize(pkt) == pkt.payload

(***************************************************************************)
(* LogicalConnectionsRegistry                                              *)
(***************************************************************************)

NoGrant == [c \in ConnIds |-> 0]

\* granted: the credits the operation added, or tried to add, to each counter
Result(cs, out, st) ==
  [conns |-> cs, out |-> out, st |-> st, pushed |-> <<>>, granted |-> NoGrant]

NoOut == [c \in ConnIds |-> <<>>]
Out(c, pkts) == [NoOut EXCEPT ![c] = pkts]
Both(o1, o2) == [c \in ConnIds |-> o1[c] \o o2[c]]

\* the drain loop with pop_back in place of pop_front
RECURSIVE DrainSendqBack(_, _, _)
DrainSendqBack(c, cp, out) ==
  IF cp.sendq /= <<>> /\ cp.nfcc_credits_avail > 0
  THEN DrainSendqBack(c,
                      [cp EXCEPT !.sendq = SubSeq(cp.sendq, 1, Len(cp.sendq) - 1),
                                 !.nfcc_credits_avail = cp.nfcc_credits_avail - 1],
                      Append(out, cp.sendq[Len(cp.sendq)]))
  ELSE [cp |-> cp, out |-> out]

\* the drain with `if` in place of `while`: at most one packet
DrainSendqOnce(c, cp, out) ==
  IF cp.sendq /= <<>> /\ cp.nfcc_credits_avail > 0
  THEN [cp |-> [cp EXCEPT !.sendq = Tail(cp.sendq),
                          !.nfcc_credits_avail = cp.nfcc_credits_avail - 1],
        out |-> Append(out, Head(cp.sendq))]
  ELSE [cp |-> cp, out |-> out]

\* `while !sendq.is_empty() && nfcc_credits_avail > 0 { sender.send(pop_front); credits -= 1 }`
RECURSIVE DrainSendq(_, _, _)
DrainSendq(c, cp, out) ==
  IF cp.sendq /= <<>> /\ cp.nfcc_credits_avail > 0
  THEN DrainSendq(c,
                  [cp EXCEPT !.sendq = Tail(cp.sendq),
                             !.nfcc_credits_avail = cp.nfcc_credits_avail - 1],
                  Append(out, Head(cp.sendq)))
  ELSE [cp |-> cp, out |-> out]

\* `conn_params.nfcc_credits_avail += ncreds` on a u8: a build with overflow
\* checks panics, a build without them wraps
OverflowOutcomes == {"wrap", "panic"}

\* LogicalConnectionsRegistry::add_credits
AddCredits(cs, c, ncreds, ovf) ==
  IF ~cs[c].open THEN Result(cs, NoOut, "ok")
  ELSE IF cs[c].mutex = "poisoned" THEN Result(cs, NoOut, "panic")
  ELSE IF cs[c].mutex = "held" THEN Result(cs, NoOut, "blocked")
  ELSE LET sum == cs[c].nfcc_credits_avail + ncreds IN
    IF sum > U8Max /\ ovf = "panic"
    THEN [Result([cs EXCEPT ![c].mutex = "poisoned"], NoOut, "panic")
            EXCEPT !.granted[c] = ncreds]
    ELSE LET d == DrainSendq(c, [cs[c] EXCEPT !.nfcc_credits_avail =
                                                 sum % (U8Max + 1)], <<>>)
         IN [Result([cs EXCEPT ![c] = d.cp], Out(c, d.out), "ok")
               EXCEPT !.granted[c] = ncreds]

\* the `for conn in conns` loop of the ConnCreditsNotification branch
RECURSIVE AddCreditsAll(_, _, _, _, _)
AddCreditsAll(cs, entries, out, granted, ovf) ==
  IF entries = <<>> THEN [Result(cs, out, "ok") EXCEPT !.granted = granted]
  ELSE LET r == AddCredits(cs, Head(entries).conn_id, Head(entries).ncredits, ovf)
           g == [c \in ConnIds |-> granted[c] + r.granted[c]]
       IN IF r.st /= "ok"
          THEN [Result(r.conns, Both(out, r.out), r.st) EXCEPT !.granted = g]
          ELSE AddCreditsAll(r.conns, Tail(entries), Both(out, r.out), g, ovf)

\* the splitting loop with `>=` in place of `>`
RECURSIVE SplitPayloadGe(_, _, _)
SplitPayloadGe(conn_id, p, max) ==
  IF Len(p) >= max
  THEN <<DataPkt(conn_id, "Incomplete", 0, SubSeq(p, 1, max))>>
         \o SplitPayloadGe(conn_id, SubSeq(p, max + 1, Len(p)), max)
  ELSE IF p /= <<>> THEN <<DataPkt(conn_id, "CompleteOrFinal", 0, p)>>
       ELSE <<>>

\* the splitting loop of send_packet, for a payload longer than a
\* max_payload_size >= 1: `while p.len() > max { Incomplete part }`, then
\* `if !p.is_empty() { CompleteOrFinal end }`
RECURSIVE SplitPayload(_, _, _)
SplitPayload(conn_id, p, max) ==
  IF Len(p) > max
  THEN <<DataPkt(conn_id, "Incomplete", 0, SubSeq(p, 1, max))>>
         \o SplitPayload(conn_id, SubSeq(p, max + 1, Len(p)), max)
  ELSE IF p /= <<>> THEN <<DataPkt(conn_id, "CompleteOrFinal", 0, p)>>
       ELSE <<>>

\* what send_packet pushes onto sendq
Segments(pkt, max) ==
  IF Len(Specialize(pkt)) > max
  THEN SplitPayload(pkt.conn_id, Specialize(pkt), max)
  ELSE <<pkt>>

\* with max_payload_size = 0 the loop `while p.len() > 0 { p.split_to(0) }`
\* never ends
Diverges(pkt, max) == max = 0 /\ Len(Specialize(pkt)) > 0

\* LogicalConnectionsRegistry::send_packet
SendPacketOp(cs, c, pkt) ==
  IF ~cs[c].open THEN Result(cs, NoOut, "ok")
  ELSE IF cs[c].mutex = "poisoned" THEN Result(cs, NoOut, "panic")
  ELSE IF Diverges(pkt, cs[c].max_payload_size)
       THEN Result([cs EXCEPT ![c].mutex = "held"], NoOut, "diverged")
  ELSE LET segs == Segments(pkt, cs[c].max_payload_size)
           d == DrainSendq(c, [cs[c] EXCEPT !.sendq = cs[c].sendq \o segs], <<>>)
       IN [Result([cs EXCEPT ![c] = d.cp], Out(c, d.out), "ok")
             EXCEPT !.pushed = segs]

RECURSIVE Payloads(_)
Payloads(q) ==
  IF q = <<>> THEN <<>> ELSE Specialize(Head(q)) \o Payloads(Tail(q))

NFC_DATA_START_CEVT == 5
NFC_DATA_CEVT == 3

Event(conn_id, code, data) == [conn_id |-> conn_id, code |-> code, data |-> data]

\* the buffer without the first packet's header octets
DataCevtPayloads(recvq) == <<0>> \o Specialize(Head(recvq)) \o Payloads(Tail(recvq))

\* the buffer send_callback builds when the final segment has arrived: the
\* status octet, the first queued packet's bytes, the other packets' payloads
DataCevt(recvq) == <<0>> \o ToBytes(Head(recvq)) \o Payloads(Tail(recvq))

\* `if !done && conn_params.recvq.is_empty()`
StartsMessageAlways(done, recvq) == ~done
StartsMessage(done, recvq) == ~done /\ recvq = <<>>

\* send_callback after its add_credits: [conns, events, st]
Receive(cs, pkt) ==
  LET c == pkt.conn_id
      done == pkt.pbf = "CompleteOrFinal"
      ev(cs2, e, st) == [conns |-> cs2, events |-> e, st |-> st]
  IN
  IF ~cs[c].open THEN ev(cs, <<>>, "ok")
  ELSE IF cs[c].mutex = "poisoned" THEN ev(cs, <<>>, "panic")
  ELSE IF cs[c].mutex = "held" THEN ev(cs, <<>>, "blocked")
  ELSE IF StartsMessage(done, cs[c].recvq) /\ ~cs[c].callback
       THEN \* callback.unwrap() on None, the lock held
            ev([cs EXCEPT ![c].mutex = "poisoned"], <<>>, "panic")
  ELSE LET start == IF StartsMessage(done, cs[c].recvq)
                    THEN <<Event(c, NFC_DATA_START_CEVT, <<>>)>> ELSE <<>>
           q == Append(cs[c].recvq, pkt)
       IN IF ~done THEN ev([cs EXCEPT ![c].recvq = q], start, "ok")
          ELSE IF ~cs[c].callback
               THEN ev([cs EXCEPT ![c].recvq = <<>>, ![c].mutex = "poisoned"],
                       start, "panic")
               ELSE ev([cs EXCEPT ![c].recvq = <<>>],
                       start \o <<Event(c, NFC_DATA_CEVT, DataCevt(q))>>, "ok")

\* bookkeeping of the credit returns each connection received
NoteGrants(g, granted) == [c \in ConnIds |-> [g[c] EXCEPT !.r = @ + granted[c]]]

Entry(c, n) == [conn_id |-> c, ncredits |-> n]

\* the dispatcher after an operation on the registry ended `st`
DispAfter(st) ==
  IF st = "panic"
  THEN /\ Panic("connection")
       /\ UNCHANGED <<cmds, sender_alive, abandoned, timer, got, out_cmd,
                      in_cmd, answered, rsp_seen, timed_out, avars, xvars>>
  ELSE IF st = "blocked"
  THEN /\ disp' = "blocked"
       /\ UNCHANGED <<cmds, cmd_q, sender_alive, abandoned, pending, timer,
                      handlers, rsink, nsink, got, out_cmd, in_cmd, answered,
                      rsp_seen, timed_out, fatal, avars, xvars>>
  ELSE UNCHANGED dvars

\* the ConnectionParameters that open() inserts
NewConnSwapped(cb, max_payload_size, nfcc_credits_avail) ==
  [open |-> TRUE, callback |-> cb, max_payload_size |-> nfcc_credits_avail,
   nfcc_credits_avail |-> max_payload_size, sendq |-> <<>>,
   recvq |-> <<>>, mutex |-> "free"]
NewConn(cb, max_payload_size, nfcc_credits_avail) ==
  [open |-> TRUE, callback |-> cb, max_payload_size |-> max_payload_size,
   nfcc_credits_avail |-> nfcc_credits_avail, sendq |-> <<>>,
   recvq |-> <<>>, mutex |-> "free"]

\* LogicalConnectionsRegistry::open
Open(c, cb, max_payload_size, nfcc_credits_avail) ==
  /\ api = "running"
  /\ conns' = [conns EXCEPT ![c] =
                 NewConn(cb, max_payload_size, nfcc_credits_avail)]
  /\ gh' = [gh EXCEPT ![c] = [NoGhost EXCEPT !.c0 = nfcc_credits_avail]]
  /\ out_data' = [out_data EXCEPT ![c] = <<>>]
  /\ cb_events' = [cb_events EXCEPT ![c] = <<>>]
     \* assert!(insert(..).is_none()): the entry is replaced, then the panic
  /\ api' = IF conns[c].open THEN "panicked" ELSE api
  /\ UNCHANGED <<used, echoed>>
  /\ UNCHANGED dvars

\* LogicalConnectionsRegistry::close
Close(c) ==
  /\ api = "running"
  /\ conns[c].open
  /\ conns' = [conns EXCEPT ![c] = NoConn]
  /\ gh' = [gh EXCEPT ![c] = NoGhost]
  /\ api' = IF conns[c].mutex = "poisoned" THEN "panicked" ELSE api
  /\ UNCHANGED <<out_data, cb_events, used, echoed>>
  /\ UNCHANGED dvars

\* LogicalConnectionsRegistry::set_static_callback with cb = Some(..)
SetStaticCallback(c) ==
  /\ api = "running"
  /\ c < 2
  /\ conns[c].open
  /\ ~conns[c].callback
  /\ IF conns[c].mutex = "poisoned"
     THEN api' = "panicked" /\ UNCHANGED conns
     ELSE api' = api /\ conns' = [conns EXCEPT ![c].callback = TRUE]
  /\ UNCHANGED <<out_data, cb_events, gh, used, echoed>>
  /\ UNCHANGED dvars

\* LogicalConnectionsRegistry::flush_data on an open connection
FlushData(c) ==
  /\ api = "running"
  /\ conns[c].open
  /\ IF conns[c].mutex = "poisoned"
     THEN api' = "panicked" /\ UNCHANGED <<conns, gh>>
     ELSE /\ api' = api
          /\ conns' = [conns EXCEPT ![c].sendq = <<>>]
          /\ gh' = [gh EXCEPT ![c].flushed = @ \/ conns[c].sendq /= <<>>]
  /\ UNCHANGED <<out_data, cb_events, used, echoed>>
  /\ UNCHANGED dvars

\* LogicalConnectionsRegistry::send_packet, called by the API task
SendPacket(c, pkt) ==
  /\ api = "running"
  /\ used.send < MaxSends
  /\ LET r == SendPacketOp(conns, c, pkt) IN
       /\ conns' = r.conns
       /\ out_data' = Both(out_data, r.out)
       /\ api' = IF r.st = "panic" THEN "panicked"
                 ELSE IF r.st = "diverged" THEN "diverged" ELSE api
       /\ gh' = IF r.st = "ok" /\ conns[c].open
                THEN [gh EXCEPT ![c].calls =
                        Append(@, [pkt |-> pkt, pushed |-> r.pushed])]
                ELSE gh
  /\ used' = [used EXCEPT !.send = @ + 1]
  /\ UNCHANGED <<cb_events, echoed>>
  /\ UNCHANGED dvars

\* `ConnCreditsNotification(ccnp) => for conn in conns { add_credits }`
DispatchConnCredits(entries) ==
  /\ disp = "running"
  /\ used.grant < MaxGrants
  /\ used' = [used EXCEPT !.grant = @ + 1]
  /\ \E ovf \in OverflowOutcomes :
       LET r == AddCreditsAll(conns, entries, NoOut, NoGrant, ovf) IN
         /\ conns' = r.conns
         /\ out_data' = Both(out_data, r.out)
         /\ gh' = NoteGrants(gh, r.granted)
         /\ DispAfter(r.st)
  /\ UNCHANGED <<cb_events, api, echoed>>

\* `Some(data) = hc.in_data_rx.recv() => lcons.send_callback(data).await`
SendCallback(pkt) ==
  /\ disp = "running"
  /\ \E ovf \in OverflowOutcomes :
       LET c == pkt.conn_id
           a == IF pkt.cr > 0 THEN AddCredits(conns, c, pkt.cr, ovf)
                ELSE Result(conns, NoOut, "ok")
           g == NoteGrants(gh, a.granted)
           r == IF a.st = "ok" THEN Receive(a.conns, pkt)
                ELSE [conns |-> a.conns, events |-> <<>>, st |-> a.st]
       IN /\ conns' = r.conns
          /\ out_data' = Both(out_data, a.out)
          /\ gh' = g
          /\ cb_events' = [cb_events EXCEPT ![c] = @ \o r.events]
          /\ DispAfter(r.st)
  /\ UNCHANGED api

\* a data packet arrives from the NFCC
DispatchData(pkt) ==
  /\ used.data < MaxInData
  /\ used' = [used EXCEPT !.data = @ + 1]
  /\ SendCallback(pkt)
  /\ UNCHANGED echoed

\* the NFCC sends back the next packet connection c handed to the transport
Loopback(c) ==
  /\ echoed < Len(out_data[c])
  /\ echoed' = echoed + 1
  /\ SendCallback(out_data[c][echoed + 1])
  /\ UNCHANGED used

\* inputs of the connection run: connection 0 is opened in every way, sent
\* split and unsplit payloads and granted credits alone; connection 1 is the
\* bystander
OpenInputs == {<<0, TRUE, 2, 0>>, <<0, TRUE, 2, 1>>, <<0, TRUE, 2, U8Max>>,
               <<0, FALSE, 0, 0>>, <<1, TRUE, 2, 1>>}
SendInputs == {<<0, <<1>>>>, <<0, <<1, 2, 3>>>>, <<1, <<4>>>>}
GrantLists == {<<Entry(0, 1)>>, <<Entry(0, 2)>>, <<Entry(0, 1), Entry(1, 1)>>}
InboundData == {DataPkt(c, "CompleteOrFinal", 1, <<7>>) : c \in ConnIds}
                 \cup {DataPkt(0, "Incomplete", 0, <<7>>)}

NextConn ==
  \/ \E o \in OpenInputs : Open(o[1], o[2], o[3], o[4])
  \/ \E c \in ConnIds : Close(c)
  \/ \E c \in ConnIds : SetStaticCallback(c)
  \/ \E c \in ConnIds : FlushData(c)
  \/ \E i \in SendInputs :
        SendPacket(i[1], DataPkt(i[1], "CompleteOrFinal", 0, i[2]))
  \/ \E e \in GrantLists : DispatchConnCredits(e)
  \/ \E pkt \in InboundData : DispatchData(pkt)

\* inputs of the loopback run: connection 0, every packet it sends comes back
LoopSizes == 0..3
LoopPayloads == {SubSeq(<<1, 2, 3, 4, 5, 6, 7, 8>>, 1, n) : n \in 0..MaxLen}
LoopPackets == {DataPkt(0, pbf, cr, p) :
                  pbf \in {"Incomplete", "CompleteOrFinal"}, cr \in 0..1,
                  p \in LoopPayloads}

LoopOpen(m) ==
  /\ ~conns[0].open
  /\ Open(0, TRUE, m, U8Max)

NextLoop ==
  \/ \E m \in LoopSizes : LoopOpen(m)
  \/ \E pkt \in LoopPackets : SendPacket(0, pkt)
  \/ Loopback(0)

SpecLoop == Init /\ [][NextLoop]_vars

SpecConn == Init /\ [][NextConn]_vars

InjectCtl == {Rsp("CoreInit", NoCmd)} \cup {Ntf(o) : o \in Opcodes}
               \cup {OtherPkt}

NextDispatch ==
  \/ \E op \in Opcodes, ntf \in BOOLEAN : Submit(op, ntf)
  \/ Abandon
  \/ DropCommandSender
  \/ HalRespond
  \/ \E m \in InjectCtl : HalInject(m)
  \/ DispatchQueued
  \/ DispatchClosed
  \/ DispatchResponse
  \/ DispatchNotification
  \/ DispatchUnexpected
  \/ DispatchTimeout

SpecDispatch == Init /\ [][NextDispatch]_vars

(***************************************************************************)
(* NciApi (src/rust/nci/api.rs): calls that use both the registry and the  *)
(* CommandSender                                                           *)
(***************************************************************************)

OpenConns == {c \in ConnIds : conns[c].open}

\* nci::Status values
StatusOk == "Ok"
StatusRejected == "Rejected"
StatusInvalidParam == "InvalidParam"

NFC_CONN_CLOSE_CEVT == 1

Return(kind, c, status, before, cb) ==
  [kind |-> kind, conn_id |-> c, status |-> status, before |-> before,
   cb |-> cb, n |-> api_ret.n + 1]

\* the effect of CommandSender::send up to `rx.await`
Enqueue(op) ==
  LET k == Len(cmds) + 1 IN
    /\ cmds' = Append(cmds, [op |-> op, ntf |-> FALSE])
    /\ cmd_q' = Append(cmd_q, k)
    /\ rsink' = [rsink EXCEPT ![k] = "open"]

\* NciApi::nfc_conn_close up to `cmd.send(..).await`
NfcConnClose(c) ==
  /\ api = "running"
  /\ api_call = Idle
  /\ api_ret.n < MaxCalls
  /\ sender_alive
  /\ Len(cmds) < MaxCmds
  /\ Len(cmd_q) < CmdChannelCapacity
     \* conn.close(conn_id): the entry is removed, then its callback read
  /\ conns' = [conns EXCEPT ![c] = NoConn]
  /\ gh' = [gh EXCEPT ![c] = NoGhost]
  /\ IF conns[c].open /\ conns[c].mutex = "poisoned"
     THEN /\ api' = "panicked"
          /\ UNCHANGED <<cmds, cmd_q, rsink, api_call, api_ret>>
     ELSE IF ~(conns[c].open /\ conns[c].callback)
     THEN /\ api_ret' = Return("conn_close", c, StatusInvalidParam, OpenConns,
                               conns[c].callback)
          /\ UNCHANGED <<cmds, cmd_q, rsink, api_call, api>>
     ELSE IF disp \in {"panicked", "terminated"}
     THEN \* cmd_tx.send(..).await? on a closed channel
          /\ api_ret' = Return("conn_close", c, "Err", OpenConns, TRUE)
          /\ UNCHANGED <<cmds, cmd_q, rsink, api_call, api>>
     ELSE /\ Enqueue("CoreConnClose")
          /\ api_call' = [kind |-> "conn_close", conn_id |-> c,
                          cmd |-> Len(cmds) + 1, before |-> OpenConns]
          /\ UNCHANGED <<api_ret, api>>
  /\ UNCHANGED <<sender_alive, abandoned, pending, timer, handlers, nsink,
                 got, out_cmd, in_cmd, answered, rsp_seen, timed_out, disp,
                 fatal>>
  /\ UNCHANGED <<out_data, cb_events, used, echoed, xvars>>

\* NciApi::nfc_conn_close from `rx.await` on: the ConnCloseResponse carries
\* the status the NFCC chose
NfcConnCloseReturn ==
  /\ api = "running"
  /\ api_call.kind = "conn_close"
  /\ LET c == api_call.conn_id
         k == api_call.cmd IN
       \/ /\ rsink[k] = "sent"
          /\ \E status \in {StatusOk, StatusRejected} :
               /\ cb_events' = [cb_events EXCEPT ![c] =
                    Append(@, Event(c, NFC_CONN_CLOSE_CEVT, <<status>>))]
               /\ api_ret' = Return("conn_close", c, status, api_call.before, TRUE)
       \/ /\ rsink[k] = "dropped"
          /\ api_ret' = Return("conn_close", c, "Err", api_call.before, TRUE)
          /\ UNCHANGED cb_events
  /\ api_call' = Idle
  /\ UNCHANGED <<cmds, cmd_q, sender_alive, abandoned, pending, timer,
                 handlers, rsink, nsink, got, out_cmd, in_cmd, answered,
                 rsp_seen, timed_out, disp, fatal>>
  /\ UNCHANGED <<conns, out_data, api, gh, used, echoed, xvars>>

\* flush_data: `true` if the connection is in the registry
FlushResult(cs, c) == cs[c].open

\* flush_tx: `self.sendq.clear()`; FlushTxKeep leaves the queue as it is
FlushTxKeep(cp) == cp
FlushTx(cp) == [cp EXCEPT !.sendq = <<>>]

\* NciApi::nfc_flush_data over LogicalConnectionsRegistry::flush_data
NfcFlushData(c) ==
  /\ api = "running"
  /\ api_call = Idle
  /\ api_ret.n < MaxCalls
  /\ IF conns[c].open /\ conns[c].mutex = "poisoned"
     THEN api' = "panicked" /\ UNCHANGED <<conns, gh, api_ret>>
     ELSE /\ api' = api
          /\ conns' = IF conns[c].open THEN [conns EXCEPT ![c] = FlushTx(@)]
                      ELSE conns
          /\ gh' = IF conns[c].open
                   THEN [gh EXCEPT ![c].flushed = @ \/ conns[c].sendq /= <<>>]
                   ELSE gh
          /\ api_ret' = Return("flush", c, FlushResult(conns, c), OpenConns,
                               conns[c].callback)
  /\ UNCHANGED <<cmds, cmd_q, sender_alive, abandoned, pending, timer,
                 handlers, rsink, nsink, got, out_cmd, in_cmd, answered,
                 rsp_seen, timed_out, disp, fatal>>
  /\ UNCHANGED <<out_data, cb_events, used, echoed, api_call, xvars>>

\* inputs of the API run
ApiOpenInputs == {<<0, TRUE, 2, 0>>, <<0, TRUE, 2, 1>>, <<1, FALSE, 2, 0>>}
ApiSendInputs == {<<0, <<1>>>>, <<0, <<1, 2, 3>>>>}
ApiGrantLists == {<<Entry(0, 1)>>, <<Entry(0, 2)>>}

NextApi ==
  \/ /\ api_call = Idle
     /\ \E o \in ApiOpenInputs : Open(o[1], o[2], o[3], o[4])
  \/ /\ api_call = Idle
     /\ \E i \in ApiSendInputs :
          SendPacket(i[1], DataPkt(i[1], "CompleteOrFinal", 0, i[2]))
  \/ \E c \in ConnIds : NfcConnClose(c)
  \/ NfcConnCloseReturn
  \/ \E e \in ApiGrantLists : DispatchConnCredits(e)
  \/ DispatchQueued
  \/ HalRespond
  \/ DispatchResponse
  \/ DispatchTimeout

SpecApi == Init /\ [][NextApi]_vars

\* inputs of the flush run: connection 0 has a callback, connection 1 none
FlushOpenInputs == {<<0, TRUE, 2, 0>>, <<0, TRUE, 2, 1>>, <<1, FALSE, 2, 0>>}
FlushSendInputs == {<<0, <<1>>>>, <<0, <<1, 2, 3>>>>, <<1, <<4>>>>}
FlushInboundData == {DataPkt(c, "Incomplete", 0, <<7>>) : c \in ConnIds}

NextFlush ==
  \/ \E o \in FlushOpenInputs : Open(o[1], o[2], o[3], o[4])
  \/ \E i \in FlushSendInputs :
        SendPacket(i[1], DataPkt(i[1], "CompleteOrFinal", 0, i[2]))
  \/ \E c \in ConnIds : NfcFlushData(c)
  \/ \E e \in ApiGrantLists : DispatchConnCredits(e)
  \/ \E pkt \in FlushInboundData : DispatchData(pkt)

SpecFlush == Init /\ [][NextFlush]_vars

(***************************************************************************)
(* Shutdown: the dispatcher with its command channel being closed, next to *)
(* a registry shared with the API task                                     *)
(***************************************************************************)

\* nfc_init opens the static RF connection with max_payload_size = 0
ShutdownOpenInputs == {<<0, TRUE, 0, 0>>, <<0, TRUE, 2, 0>>}
ShutdownSendInputs == {<<0, <<1>>>>}
ShutdownGrantLists == {<<Entry(0, 1)>>}

\* one turn of the `loop { select! { .. } }` on the command side
DispatchStep ==
  \/ DispatchQueued
  \/ DispatchClosed
  \/ DispatchResponse
  \/ DispatchTimeout

NextShutdown ==
  \/ \E op \in Opcodes : Submit(op, FALSE)
  \/ Abandon
  \/ DropCommandSender
  \/ HalRespond
  \/ DispatchQueued
  \/ DispatchClosed
  \/ DispatchResponse
  \/ DispatchTimeout
  \/ \E o \in ShutdownOpenInputs : Open(o[1], o[2], o[3], o[4])
  \/ \E i \in ShutdownSendInputs :
        SendPacket(i[1], DataPkt(i[1], "CompleteOrFinal", 0, i[2]))
  \/ \E e \in ShutdownGrantLists : DispatchConnCredits(e)

\* the dispatcher task is polled whenever one of its branches is ready, and
\* the 20 ms timer it arms expires
SpecShutdown == Init /\ [][NextShutdown]_vars /\ WF_vars(DispatchStep)

(***************************************************************************)
(* Emulator (tools/casimir): NCI control packets on the wire               *)
(***************************************************************************)

\* nci::DestinationType and nci::DestinationSpecificParameterId by octet
DestinationTypeOf ==
  (1 :> "NfccLoopback") @@ (2 :> "RemoteNfcEndpoint") @@ (3 :> "Nfcee")
ParameterIdOf == (0 :> "RfDiscovery") @@ (1 :> "Nfcee")

\* the octets nci::RfProtocolType::try_from accepts (Undetermined .. Ndef)
RfProtocolTypes == 0..7

ParseError == [kind |-> "ParseError"]

\* header of an unsegmented Command of group Core: MT = 1, PBF = 0, GID = 0
CommandHeader(oid, len) == <<32, oid, len>>

RECURSIVE ParameterBytes(_)
ParameterBytes(ps) ==
  IF ps = <<>> THEN <<>>
  ELSE <<Head(ps)[1], Len(Head(ps)[2])>> \o Head(ps)[2]
         \o ParameterBytes(Tail(ps))

\* CORE_CONN_CREATE_CMD: destination type, number of parameters, then
\* (type, length, value) for each parameter
ConnCreateBytes(dt, ps) ==
  LET body == <<dt, Len(ps)>> \o ParameterBytes(ps)
  IN CommandHeader(4, Len(body)) \o body

\* CORE_CONN_CLOSE_CMD: the Conn ID
ConnCloseBytes(conn_id) == CommandHeader(5, 1) \o <<conn_id>>

RECURSIVE ParseParameters(_, _)
ParseParameters(bs, n) ==
  IF n = 0
  THEN [ok |-> bs = <<>>, ps |-> <<>>]
  ELSE IF Len(bs) < 2
  THEN [ok |-> FALSE, ps |-> <<>>]
  ELSE IF Len(bs) < 2 + bs[2] \/ bs[1] \notin DOMAIN ParameterIdOf
  THEN [ok |-> FALSE, ps |-> <<>>]
  ELSE LET rest == ParseParameters(SubSeq(bs, 3 + bs[2], Len(bs)), n - 1)
       IN [ok |-> rest.ok,
           ps |-> <<[id |-> ParameterIdOf[bs[1]],
                     value |-> SubSeq(bs, 3, 2 + bs[2])]>> \o rest.ps]

\* CORE_RESET_CMD: the reset type (0 keeps, 1 resets the configuration)
ResetTypeOf == (0 :> "KeepConfig") @@ (1 :> "ResetConfig")
ResetBytes(reset_type) == CommandHeader(0, 1) \o <<reset_type>>

\* CORE_SET_CONFIG_CMD: number of parameters, then (id, length, value)
SetConfigBytes(ps) ==
  LET body == <<Len(ps)>> \o ParameterBytes(ps)
  IN CommandHeader(2, Len(body)) \o body

\* CORE_GET_CONFIG_CMD: number of parameter ids, then the ids
GetConfigBytes(ids) == CommandHeader(3, Len(ids) + 1) \o <<Len(ids)>> \o ids

\* nci::ConfigParameterId: every octet is an id, the reserved ones are
\* ConfigParameterId::Rfu(octet); 0x03 - 0x07 are reserved
RfuConfigIds == 3..7
IsRfu(id) == id \in RfuConfigIds

RECURSIVE ParseConfigParameters(_, _)
ParseConfigParameters(bs, n) ==
  IF n = 0
  THEN [ok |-> bs = <<>>, ps |-> <<>>]
  ELSE IF Len(bs) < 2
  THEN [ok |-> FALSE, ps |-> <<>>]
  ELSE IF Len(bs) < 2 + bs[2]
  THEN [ok |-> FALSE, ps |-> <<>>]
  ELSE LET rest == ParseConfigParameters(SubSeq(bs, 3 + bs[2], Len(bs)), n - 1)
       IN [ok |-> rest.ok,
           ps |-> <<[id |-> bs[1], value |-> SubSeq(bs, 3, 2 + bs[2])]>>
                    \o rest.ps]

\* nci::ControlPacket::parse followed by specialize(), for the Core commands
\* of the configuration and of the logical-connection table; any other
\* opcode is "Unsupported"
ControlPacketParse(bs) ==
  IF Len(bs) < 3 THEN ParseError
  ELSE IF bs[3] /= Len(bs) - 3 THEN ParseError
  ELSE LET gid == bs[1] % 16
           oid == bs[2] % 64
           p == SubSeq(bs, 4, Len(bs))
       IN IF gid = 0 /\ oid = 0
          THEN IF Len(p) = 1 /\ p[1] \in DOMAIN ResetTypeOf
               THEN [kind |-> "CoreResetCommand",
                     reset_type |-> ResetTypeOf[p[1]]]
               ELSE ParseError
          ELSE IF gid = 0 /\ oid = 2
          THEN IF Len(p) < 1 THEN ParseError
               ELSE LET r == ParseConfigParameters(Tail(p), p[1])
                    IN IF r.ok
                       THEN [kind |-> "CoreSetConfigCommand",
                             parameters |-> r.ps]
                       ELSE ParseError
          ELSE IF gid = 0 /\ oid = 3
          THEN IF Len(p) < 1 \/ p[1] /= Len(p) - 1 THEN ParseError
               ELSE [kind |-> "CoreGetConfigCommand", parameters |-> Tail(p)]
          ELSE IF gid = 0 /\ oid = 4
          THEN IF Len(p) < 2 THEN ParseError
               ELSE IF p[1] \notin DOMAIN DestinationTypeOf THEN ParseError
               ELSE LET r == ParseParameters(SubSeq(p, 3, Len(p)), p[2])
                    IN IF r.ok
                       THEN [kind |-> "CoreConnCreateCommand",
                             destination_type |-> DestinationTypeOf[p[1]],
                             parameters |-> r.ps]
                       ELSE ParseError
          ELSE IF gid = 0 /\ oid = 5
          THEN IF Len(p) = 1
               THEN [kind |-> "CoreConnCloseCommand", conn_id |-> p[1]]
               ELSE ParseError
          ELSE IF (gid = 0 /\ oid \in {1, 9})
                    \/ (gid = 1 /\ oid \in {0, 1, 2, 3, 6})
                    \/ (gid = 2 /\ oid = 0)
          THEN \* CoreInit, CoreSetPowerSubState, the five RF commands and
               \* NfceeDiscover: their payloads are not followed
               [kind |-> "AnsweredCommand", gid |-> gid, oid |-> oid]
          ELSE [kind |-> "Unsupported"]

\* nci::PacketHeader::get_mt
MessageType(bs) == bs[1] \div 32

(***************************************************************************)
(* Emulator: Controller                                                    *)
(***************************************************************************)

MAX_DATA_PACKET_PAYLOAD_SIZE == 255
INITIAL_NUMBER_OF_CREDITS == 255

RemoteNfcEndpoint(rf_discovery_id, rf_protocol_type) ==
  [kind |-> "RemoteNfcEndpoint", rf_discovery_id |-> rf_discovery_id,
   rf_protocol_type |-> rf_protocol_type]

CoreConnCreateResponse(status, mpps, ncreds, conn_id) ==
  [kind |-> "CoreConnCreateResponse", status |-> status,
   max_data_packet_payload_size |-> mpps,
   initial_number_of_credits |-> ncreds, conn_id |-> conn_id]

CoreConnCloseResponse(status) ==
  [kind |-> "CoreConnCloseResponse", status |-> status, conn_id |-> 0,
   max_data_packet_payload_size |-> 0, initial_number_of_credits |-> 0]

\* `(0..MAX_LOGICAL_CONNECTIONS).find(|conn_id| .. .is_none())`
FreeSlots(lcs) == {i \in Slots : lcs[i] = NoLogicalConnection}
FindHighest(lcs) == CHOOSE i \in FreeSlots(lcs) : \A j \in FreeSlots(lcs) : j <= i
Find(lcs) == CHOOSE i \in FreeSlots(lcs) : \A j \in FreeSlots(lcs) : i <= j

\* `for parameter in cmd.get_parameters()`: each RfDiscovery parameter
\* overwrites both options, any other parameter rejects the command
\* Option<u8>: None is <<>>, Some(v) is <<v>>
NoneOpt == <<>>

\* the same loop passing over the parameters of another type
RECURSIVE ScanParametersSkip(_, _, _)
ScanParametersSkip(ps, id, protocol) ==
  IF ps = <<>> THEN [ok |-> TRUE, id |-> id, protocol |-> protocol]
  ELSE IF Head(ps).id /= "RfDiscovery"
  THEN ScanParametersSkip(Tail(ps), id, protocol)
  ELSE LET v == Head(ps).value
           first == IF Len(v) >= 1 THEN <<v[1]>> ELSE NoneOpt
           second == IF Len(v) >= 2 /\ v[2] \in RfProtocolTypes
                     THEN <<v[2]>> ELSE NoneOpt
       IN ScanParametersSkip(Tail(ps), first, second)

RECURSIVE ScanParameters(_, _, _)
ScanParameters(ps, id, protocol) ==
  IF ps = <<>> THEN [ok |-> TRUE, id |-> id, protocol |-> protocol]
  ELSE IF Head(ps).id /= "RfDiscovery"
  THEN [ok |-> FALSE, id |-> id, protocol |-> protocol]
  ELSE LET v == Head(ps).value
           first == IF Len(v) >= 1 THEN <<v[1]>> ELSE NoneOpt
           second == IF Len(v) >= 2 /\ v[2] \in RfProtocolTypes
                     THEN <<v[2]>> ELSE NoneOpt
       IN ScanParameters(Tail(ps), first, second)

\* `self.logical_connections.iter().any(|c| c.as_ref() == Some(&lc))`
IsOpenNever(lcs, lc) == FALSE
IsOpen(lcs, lc) == \E i \in Slots : lcs[i] = lc

\* the closure of core_conn_create: Ok(conn_id) with the new table, or
\* Err(Rejected)
Accepted(lcs, conn_id) == [ok |-> TRUE, lcs |-> lcs, conn_id |-> conn_id]
RejectedBy(lcs) == [ok |-> FALSE, lcs |-> lcs, conn_id |-> 0]

CreateResult(lcs, cmd) ==
  IF FreeSlots(lcs) = {} THEN RejectedBy(lcs)
  ELSE IF cmd.destination_type /= "RemoteNfcEndpoint" THEN RejectedBy(lcs)
  ELSE LET conn_id == Find(lcs)
           sc == ScanParameters(cmd.parameters, NoneOpt, NoneOpt)
       IN IF ~sc.ok THEN RejectedBy(lcs)
          ELSE IF sc.id = NoneOpt \/ sc.protocol = NoneOpt THEN RejectedBy(lcs)
          ELSE LET lc == RemoteNfcEndpoint(sc.id[1], sc.protocol[1])
               IN IF IsOpen(lcs, lc) THEN RejectedBy(lcs)
                  ELSE Accepted([lcs EXCEPT ![conn_id] = lc], conn_id)

\* Controller::core_conn_create: [lcs, rsp]
CoreConnCreate(lcs, cmd) ==
  LET r == CreateResult(lcs, cmd)
  IN [lcs |-> r.lcs,
      rsp |-> IF r.ok
              THEN CoreConnCreateResponse(StatusOk,
                     MAX_DATA_PACKET_PAYLOAD_SIZE, INITIAL_NUMBER_OF_CREDITS,
                     r.conn_id)
              ELSE CoreConnCreateResponse(StatusRejected, 0,
                     INITIAL_NUMBER_OF_CREDITS, 0)]

\* a close that answers Ok for an open slot and leaves it occupied
CoreConnCloseKeep(lcs, cmd) ==
  IF cmd.conn_id >= MAX_LOGICAL_CONNECTIONS
  THEN [lcs |-> lcs, rsp |-> CoreConnCloseResponse(StatusRejected)]
  ELSE IF lcs[cmd.conn_id] = NoLogicalConnection
  THEN [lcs |-> lcs, rsp |-> CoreConnCloseResponse(StatusRejected)]
  ELSE [lcs |-> lcs, rsp |-> CoreConnCloseResponse(StatusOk)]

\* Controller::core_conn_close: [lcs, rsp]
CoreConnClose(lcs, cmd) ==
  IF cmd.conn_id >= MAX_LOGICAL_CONNECTIONS
  THEN [lcs |-> lcs, rsp |-> CoreConnCloseResponse(StatusRejected)]
  ELSE IF lcs[cmd.conn_id] = NoLogicalConnection
  THEN [lcs |-> lcs, rsp |-> CoreConnCloseResponse(StatusRejected)]
  ELSE [lcs |-> [lcs EXCEPT ![cmd.conn_id] = NoLogicalConnection],
        rsp |-> CoreConnCloseResponse(StatusOk)]

\* CoreResetNotification(PowerOn), written when run() starts
\* HashMap<ConfigParameterId, Vec<u8>>: insert replaces the value of the key
Insert(cfg, id, value) == {e \in cfg : e[1] /= id} \cup {<<id, value>>}
ContainsKey(cfg, id) == \E e \in cfg : e[1] = id
Get(cfg, id) == (CHOOSE e \in cfg : e[1] = id)[2]

CoreSetConfigResponse(status, parameters) ==
  [kind |-> "CoreSetConfigResponse", status |-> status,
   parameters |-> parameters]

CoreGetConfigResponse(status, parameters) ==
  [kind |-> "CoreGetConfigResponse", status |-> status,
   parameters |-> parameters]

CoreResetResponse(status) == [kind |-> "CoreResetResponse", status |-> status]

CoreResetNotification(trigger, config_status) ==
  [kind |-> "CoreResetNotification", status |-> StatusOk, conn_id |-> 0,
   max_data_packet_payload_size |-> 0, initial_number_of_credits |-> 0,
   trigger |-> trigger, config_status |-> config_status]

\* core_set_config, `for parameter in cmd.get_parameters().iter()`:
\* [cfg, invalid_parameters] after the parameters ps
RECURSIVE SetConfigLoopStopStoring(_, _, _)
SetConfigLoopStopStoring(cfg, invalid_parameters, ps) ==
  IF ps = <<>> THEN [cfg |-> cfg, invalid_parameters |-> invalid_parameters]
  ELSE IF IsRfu(Head(ps).id) \/ invalid_parameters /= <<>>
  THEN SetConfigLoopStopStoring(
         cfg, IF IsRfu(Head(ps).id)
              THEN Append(invalid_parameters, Head(ps).id)
              ELSE invalid_parameters, Tail(ps))
  ELSE SetConfigLoopStopStoring(
         Insert(cfg, Head(ps).id, Head(ps).value), invalid_parameters,
         Tail(ps))

RECURSIVE SetConfigLoop(_, _, _)
SetConfigLoop(cfg, invalid_parameters, ps) ==
  IF ps = <<>> THEN [cfg |-> cfg, invalid_parameters |-> invalid_parameters]
  ELSE IF IsRfu(Head(ps).id)
  THEN SetConfigLoop(cfg, Append(invalid_parameters, Head(ps).id), Tail(ps))
  ELSE SetConfigLoop(Insert(cfg, Head(ps).id, Head(ps).value),
                     invalid_parameters, Tail(ps))

\* Controller::core_set_config: [cfg, rsp]
CoreSetConfig(cfg, cmd) ==
  LET r == SetConfigLoop(cfg, <<>>, cmd.parameters)
  IN [cfg |-> r.cfg,
      rsp |-> CoreSetConfigResponse(
                IF r.invalid_parameters = <<>> THEN StatusOk
                ELSE StatusInvalidParam, r.invalid_parameters)]

\* core_get_config, `for id in cmd.get_parameters()`
ConfigParameter(id, value) == [id |-> id, value |-> value]

RECURSIVE ValidParameters(_, _)
ValidParameters(cfg, ids) ==
  IF ids = <<>> THEN <<>>
  ELSE IF ContainsKey(cfg, Head(ids))
  THEN <<ConfigParameter(Head(ids), Get(cfg, Head(ids)))>>
         \o ValidParameters(cfg, Tail(ids))
  ELSE ValidParameters(cfg, Tail(ids))

RECURSIVE InvalidParameters(_, _)
InvalidParameters(cfg, ids) ==
  IF ids = <<>> THEN <<>>
  ELSE IF ContainsKey(cfg, Head(ids))
  THEN InvalidParameters(cfg, Tail(ids))
  ELSE <<ConfigParameter(Head(ids), <<>>)>>
         \o InvalidParameters(cfg, Tail(ids))

\* Controller::core_get_config: the response
CoreGetConfigFirstValid(cfg, cmd) ==
  LET valid_parameters == ValidParameters(cfg, cmd.parameters)
      invalid_parameters == InvalidParameters(cfg, cmd.parameters)
  IN IF invalid_parameters = <<>>
     THEN CoreGetConfigResponse(StatusOk, valid_parameters)
     ELSE CoreGetConfigResponse(StatusInvalidParam,
                                valid_parameters \o invalid_parameters)

CoreGetConfig(cfg, cmd) ==
  LET valid_parameters == ValidParameters(cfg, cmd.parameters)
      invalid_parameters == InvalidParameters(cfg, cmd.parameters)
  IN IF invalid_parameters = <<>>
     THEN CoreGetConfigResponse(StatusOk, valid_parameters)
     ELSE CoreGetConfigResponse(StatusInvalidParam, invalid_parameters)

\* Controller::core_reset: the two packets it writes, in order
ConfigStatusOf(reset_type) ==
  IF reset_type = "KeepConfig" THEN "ConfigKept" ELSE "ConfigReset"

CoreResetNotifyFirst(cmd) ==
  <<CoreResetNotification("ResetCommand", ConfigStatusOf(cmd.reset_type)),
    CoreResetResponse(StatusOk)>>

CoreReset(cmd) ==
  <<CoreResetResponse(StatusOk),
    CoreResetNotification("ResetCommand", ConfigStatusOf(cmd.reset_type))>>

PowerOnNotification == CoreResetNotification("PowerOn", "ConfigReset")

\* main: nci_listener.accept() => scene.add_device; the device's task starts
\* Controller::run with a new Controller
MAX_DEVICES == 2
DeviceIds == 0..(MAX_DEVICES - 1)

\* `self.devices[id].is_none()`
IsNone(d0, d1, id) == IF id = 0 THEN d0 = "None" ELSE d1 = 0

\* add_device, `for id in 0..MAX_DEVICES`: the id it returns in Ok, or Err
AddDeviceIdLast(d0, d1) ==
  IF \E id \in DeviceIds : IsNone(d0, d1, id)
  THEN [res |-> "Ok",
        id |-> CHOOSE id \in DeviceIds :
                 /\ IsNone(d0, d1, id)
                 /\ \A j \in DeviceIds : IsNone(d0, d1, j) => j <= id]
  ELSE [res |-> "Err", id |-> 0]

AddDeviceId(d0, d1) ==
  IF \E id \in DeviceIds : IsNone(d0, d1, id)
  THEN [res |-> "Ok",
        id |-> CHOOSE id \in DeviceIds :
                 /\ IsNone(d0, d1, id)
                 /\ \A j \in DeviceIds : IsNone(d0, d1, j) => id <= j]
  ELSE [res |-> "Err", id |-> 0]

AddDevice ==
  /\ devices /= "Panicked"
  /\ scene_send = <<>>
  /\ add_device' = AddDeviceId(devices, device1)
  /\ rf_inbox' = IF add_device'.res = "Ok"
                 THEN [rf_inbox EXCEPT ![add_device'.id] = <<>>]
                 ELSE rf_inbox
  /\ UNCHANGED <<rf_mailbox, rf_log, scene_send, wvars>>
  /\ IF add_device'.res = "Ok" /\ add_device'.id = 0
     THEN /\ devices' = "Some"
          /\ logical_connections' = [i \in Slots |-> NoLogicalConnection]
          /\ config_parameters' = {}
          /\ nci_out' = <<PowerOnNotification>>
          /\ emu_rx' = [emu_rx EXCEPT !.sets = <<>>]
          /\ UNCHANGED device1
     ELSE IF add_device'.res = "Ok"
     THEN /\ device1' = 1
          /\ UNCHANGED <<devices, logical_connections, config_parameters,
                         nci_out, emu_rx>>
     ELSE UNCHANGED <<devices, logical_connections, config_parameters,
                      nci_out, emu_rx, device1>>
  /\ UNCHANGED <<hvars, avars>>
  /\ UNCHANGED <<cmds, cmd_q, sender_alive, abandoned, pending, timer,
                 handlers, rsink, nsink, got, out_cmd, in_cmd, answered,
                 rsp_seen, timed_out, disp, fatal>>
  /\ UNCHANGED <<conns, out_data, cb_events, api, gh, used, echoed>>

\* what one turn of the loop of Controller::run does with the packet read,
\* seen from Scene::poll: [devices, lcs, cfg, out]
\* - Err(..) from `?` ends the task: poll drops the device and its controller
\* - todo!() / unimplemented!() unwind through poll
Dropped == [devices |-> "None", cfg |-> {},
            lcs |-> [i \in Slots |-> NoLogicalConnection], out |-> <<>>]
Unwound == [devices |-> "Panicked", cfg |-> {},
            lcs |-> [i \in Slots |-> NoLogicalConnection], out |-> <<>>]
Handled(lcs, cfg, out) ==
  [devices |-> "Some", cfg |-> cfg, lcs |-> lcs, out |-> out]

\* core_init, core_set_power_sub_state, rf_discover_map, rf_discover,
\* rf_set_listen_mode_routing, rf_get_listen_mode_routing, rf_deactivate and
\* nfcee_discover write a response and leave the controller's tables alone
AnsweredResponse(cmd) ==
  [kind |-> "Response", gid |-> cmd.gid, oid |-> cmd.oid, status |-> "Ok"]

RunOnce(lcs, cfg, packet) ==
  IF MessageType(packet) = 0
  THEN \* DataPacket::parse(&packet)? then receive_data
       IF packet[3] /= Len(packet) - 3 THEN Dropped ELSE Unwound
  ELSE IF MessageType(packet) = 1
  THEN LET cmd == ControlPacketParse(packet)
       IN IF cmd = ParseError THEN Dropped
          ELSE IF cmd.kind = "CoreResetCommand"
          THEN Handled(lcs, cfg, CoreReset(cmd))
          ELSE IF cmd.kind = "CoreSetConfigCommand"
          THEN LET r == CoreSetConfig(cfg, cmd)
               IN Handled(lcs, r.cfg, <<r.rsp>>)
          ELSE IF cmd.kind = "CoreGetConfigCommand"
          THEN Handled(lcs, cfg, <<CoreGetConfig(cfg, cmd)>>)
          ELSE IF cmd.kind = "CoreConnCreateCommand"
          THEN LET r == CoreConnCreate(lcs, cmd)
               IN Handled(r.lcs, cfg, <<r.rsp>>)
          ELSE IF cmd.kind = "CoreConnCloseCommand"
          THEN LET r == CoreConnClose(lcs, cmd)
               IN Handled(r.lcs, cfg, <<r.rsp>>)
          ELSE IF cmd.kind = "AnsweredCommand"
          THEN Handled(lcs, cfg, <<AnsweredResponse(cmd)>>)
          ELSE \* unimplemented!("unsupported .. oid") / ("unsupported gid")
               Unwound
  ELSE Dropped

\* nci_reader.read() returned `packet`
ControllerRun(packet) ==
  /\ devices = "Some"
  /\ scene_send = <<>>
  /\ emu_rx.n < MaxPackets
  /\ rf_inbox' = IF RunOnce(logical_connections, config_parameters,
                            packet).devices = "Some"
                 THEN rf_inbox
                 ELSE [rf_inbox EXCEPT ![0] = <<>>]
  /\ UNCHANGED <<rf_mailbox, rf_log, scene_send, wvars>>
  /\ LET r == RunOnce(logical_connections, config_parameters, packet)
         handled_set == /\ r.devices = "Some"
                        /\ MessageType(packet) = 1
                        /\ ControlPacketParse(packet).kind
                             = "CoreSetConfigCommand"
     IN /\ devices' = r.devices
        /\ logical_connections' = r.lcs
        /\ config_parameters' = r.cfg
        /\ emu_rx' = [n |-> emu_rx.n + 1, last |-> packet,
                      sets |-> IF r.devices /= "Some" THEN <<>>
                               ELSE IF handled_set
                               THEN Append(emu_rx.sets, packet)
                               ELSE emu_rx.sets]
        /\ nci_out' = nci_out \o r.out
        /\ device1' = IF r.devices = "Panicked" THEN 0 ELSE device1
  /\ UNCHANGED <<add_device, hvars, avars>>
  /\ UNCHANGED <<cmds, cmd_q, sender_alive, abandoned, pending, timer,
                 handlers, rsink, nsink, got, out_cmd, in_cmd, answered,
                 rsp_seen, timed_out, disp, fatal>>
  /\ UNCHANGED <<conns, out_data, cb_events, api, gh, used, echoed>>

\* Controller::run of the device in slot 1, nci_reader.read() returned
\* `packet`: of this controller only the end of its task is followed
Device1Run(packet) ==
  /\ devices /= "Panicked"
  /\ scene_send = <<>>
  /\ device1 /= 0
  /\ device1 <= MaxPackets
  /\ rf_inbox' = IF RunOnce([i \in Slots |-> NoLogicalConnection], {},
                            packet).devices = "Some"
                 THEN rf_inbox
                 ELSE [rf_inbox EXCEPT ![1] = <<>>]
  /\ UNCHANGED <<rf_mailbox, rf_log, scene_send, wvars>>
  /\ LET r == RunOnce([i \in Slots |-> NoLogicalConnection], {}, packet)
     IN IF r.devices = "Panicked"
        THEN /\ devices' = "Panicked"
             /\ device1' = 0
             /\ logical_connections' = Unwound.lcs
             /\ config_parameters' = Unwound.cfg
             /\ emu_rx' = [emu_rx EXCEPT !.sets = <<>>]
        ELSE /\ device1' = IF r.devices = "None" THEN 0 ELSE device1 + 1
             /\ UNCHANGED <<devices, logical_connections, config_parameters,
                            emu_rx>>
  /\ UNCHANGED <<nci_out, add_device, hvars, avars>>
  /\ UNCHANGED <<cmds, cmd_q, sender_alive, abandoned, pending, timer,
                 handlers, rsink, nsink, got, out_cmd, in_cmd, answered,
                 rsp_seen, timed_out, disp, fatal>>
  /\ UNCHANGED <<conns, out_data, cb_events, api, gh, used, echoed>>

\* the commands the host sends: one RfDiscovery parameter in each shape,
\* parameters of another type, repeated parameters, the other destinations
RfDiscoveryValues == {<<1, 4>>, <<2, 4>>, <<1, 5>>, <<1>>, <<>>, <<1, 9>>}
ParameterLists ==
  {<<>>} \cup {<< <<0, v>> >> : v \in RfDiscoveryValues}
    \cup {<< <<1, <<1, 4>>>> >>,
          << <<0, <<1, 4>>>>, <<1, <<1, 4>>>> >>,
          << <<0, <<1, 9>>>>, <<0, <<2, 4>>>> >>,
          << <<0, <<1, 4>>>>, <<0, <<>>>> >>}
EmuPackets ==
  {ConnCreateBytes(2, ps) : ps \in ParameterLists}
    \cup {ConnCreateBytes(dt, << <<0, <<1, 4>>>> >>) : dt \in {1, 3}}
    \cup {ConnCloseBytes(c) : c \in {0, 1, 2, 255}}
    \cup {CommandHeader(5, 0)}

NextEmu ==
  \/ AddDevice
  \/ \E packet \in EmuPackets : ControllerRun(packet)

SpecEmu == Init /\ [][NextEmu]_vars

\* the configuration commands the host sends: parameters 0 and 1 are
\* defined ones, 3 and 4 are reserved; values of one octet and of none
SetConfigLists ==
  {<< <<0, <<1>>>> >>,
   << <<0, <<2>>>> >>,
   << <<3, <<1>>>>, <<1, <<1>>>>, <<4, <<>>>> >>,
   << <<1, <<2>>>>, <<3, <<1>>>> >>,
   << <<0, <<1>>>>, <<0, <<2>>>> >>}
GetConfigLists == {<<0>>, <<1, 0>>, <<0, 3, 1>>, <<>>}
ConfigPackets ==
  {SetConfigBytes(ps) : ps \in SetConfigLists}
    \cup {GetConfigBytes(ids) : ids \in GetConfigLists}
    \cup {ResetBytes(t) : t \in {0, 1, 2}}

NextConfig ==
  \/ AddDevice
  \/ \E packet \in ConfigPackets : ControllerRun(packet)

SpecConfig == Init /\ [][NextConfig]_vars

\* two hosts connected to the scene: commands that are handled, one that
\* does not parse, and a data packet
ScenePackets ==
  {ConnCreateBytes(2, << <<0, <<1, 4>>>> >>), ConnCloseBytes(0),
   CommandHeader(5, 0), <<0, 0, 0>>,
   CommandHeader(1, 0), CommandHeader(6, 0), <<32 + 15, 0, 0>>}

NextScene ==
  \/ AddDevice
  \/ \E packet \in ScenePackets : ControllerRun(packet)
  \/ \E packet \in ScenePackets : Device1Run(packet)

SpecScene == Init /\ [][NextScene]_vars

(***************************************************************************)
(* Host HAL ingress (hal/rootcanal_hal.rs: dispatch_incoming)              *)
(***************************************************************************)

\* is_control_packet: `(data[0] >> 5) & 0x7 != 0`
IsControlPacket(data) == (data[1] \div 32) % 8 /= 0

OpcodeOf == (<<0, 0>> :> "CoreReset") @@ (<<0, 1>> :> "CoreInit")

\* nfc_packets NciPacket::parse and specialize(): the three header octets,
\* the payload of the announced length
NciPacketParse(bs) ==
  IF Len(bs) < 3 THEN ParseError
  ELSE IF bs[3] /= Len(bs) - 3 THEN ParseError
  ELSE LET mt == bs[1] \div 32
           op == <<bs[1] % 16, bs[2] % 64>>
       IN IF op \notin DOMAIN OpcodeOf THEN ParseError
          ELSE IF mt = 2 THEN Rsp(OpcodeOf[op], NoCmd)
          ELSE IF mt = 3 THEN Ntf(OpcodeOf[op])
          ELSE OtherPkt

\* nfc_packets DataPacket::parse
DataPacketParse(bs) ==
  IF Len(bs) < 3 THEN ParseError
  ELSE IF bs[3] /= Len(bs) - 3 THEN ParseError
  ELSE DataPkt(bs[1] % 16,
               IF (bs[1] \div 16) % 2 = 1 THEN "Incomplete"
               ELSE "CompleteOrFinal",
               bs[2] \div 64, SubSeq(bs, 4, Len(bs)))

\* the receiver of in_cmd_tx / in_data_tx is gone once the dispatcher ended
ReceiverGone == disp \in {"panicked", "terminated"}

\* one turn of the loop of dispatch_incoming: a frame of `len` octets was read
DispatchIncoming(frame) ==
  /\ ingress = "running"
  /\ hal_rx.n < MaxPackets
  /\ hal_rx' = [n |-> hal_rx.n + 1, last |-> frame]
  /\ IF frame = <<>>
     THEN \* data[0] on an empty slice
          /\ ingress' = "panicked"
          /\ UNCHANGED <<in_cmd, in_data>>
     ELSE IF IsControlPacket(frame)
     THEN LET p == NciPacketParse(frame) IN
            IF p = ParseError
            THEN UNCHANGED <<ingress, in_cmd, in_data>>
            ELSE IF ReceiverGone
            THEN ingress' = "ended" /\ UNCHANGED <<in_cmd, in_data>>
            ELSE /\ in_cmd' = Append(in_cmd, p)
                 /\ UNCHANGED <<ingress, in_data>>
     ELSE LET p == DataPacketParse(frame) IN
            IF p = ParseError
            THEN UNCHANGED <<ingress, in_cmd, in_data>>
            ELSE IF ReceiverGone
            THEN ingress' = "ended" /\ UNCHANGED <<in_cmd, in_data>>
            ELSE /\ in_data' = Append(in_data, p)
                 /\ UNCHANGED <<ingress, in_cmd>>
  /\ UNCHANGED <<cmds, cmd_q, sender_alive, abandoned, pending, timer,
                 handlers, rsink, nsink, got, out_cmd, answered, rsp_seen,
                 timed_out, disp, fatal>>
  /\ UNCHANGED <<conns, out_data, cb_events, api, gh, used, echoed>>
  /\ UNCHANGED <<avars, evars>>

\* frames from the NFCC: a data packet, a notification, a command, each also
\* with a length octet that does not match, and a frame of length zero
HalFrames == {<<>>, <<0, 0, 1, 7>>, <<0, 0, 2, 7>>, <<96, 0, 0>>,
              <<96, 0, 1>>, <<32, 1, 0>>, <<64>>}

\* packets from the host: a create, a close, and commands cut short
ParsePackets == {ConnCreateBytes(2, << <<0, <<1, 4>>>> >>), ConnCloseBytes(0),
                 CommandHeader(5, 0), CommandHeader(4, 1) \o <<2>>}

NextParse ==
  \/ \E frame \in HalFrames : DispatchIncoming(frame)
  \/ DispatchNotification
  \/ DispatchUnexpected
  \/ AddDevice
  \/ \E packet \in ParsePackets : ControllerRun(packet)

SpecParse == Init /\ [][NextParse]_vars

(***************************************************************************)
(* The host API against the emulator: nfc_init's static connections and    *)
(* nfc_conn_create                                                         *)
(***************************************************************************)

NUMBER_OF_CREDITS == 0
NFC_CONN_CREATE_CEVT == 0

\* nfc_init after the InitResponse: open(0, rf_callback, 0, 0), then
\* open(1, hci_callback, max_data_payload, num_of_credits) with the values
\* of the emulator's CoreInitResponse; an open on an open Conn ID replaces
\* the entry and panics
NfcInitOpen(rf_callback, hci_callback) ==
  /\ api = "running"
  /\ api_call = Idle
  /\ api_ret.n < MaxCalls
  /\ LET c0 == NewConn(rf_callback, 0, 0)
         c1 == NewConn(hci_callback, MAX_DATA_PACKET_PAYLOAD_SIZE,
                       NUMBER_OF_CREDITS)
     IN IF conns[0].open
        THEN /\ conns' = [conns EXCEPT ![0] = c0]
             /\ gh' = [gh EXCEPT ![0] = NoGhost]
             /\ out_data' = [out_data EXCEPT ![0] = <<>>]
             /\ cb_events' = [cb_events EXCEPT ![0] = <<>>]
             /\ api' = "panicked"
             /\ UNCHANGED api_ret
        ELSE /\ conns' = [conns EXCEPT ![0] = c0, ![1] = c1]
             /\ gh' = [gh EXCEPT ![0] = NoGhost,
                                 ![1] = [NoGhost EXCEPT !.c0 = NUMBER_OF_CREDITS]]
             /\ out_data' = [c \in ConnIds |-> <<>>]
             /\ cb_events' = [c \in ConnIds |-> <<>>]
             /\ api' = IF conns[1].open THEN "panicked" ELSE api
             /\ api_ret' = IF conns[1].open THEN api_ret
                           ELSE Return("init", 0, StatusOk, OpenConns, TRUE)
  /\ UNCHANGED <<used, echoed, api_call, xvars>>
  /\ UNCHANGED <<cmds, cmd_q, sender_alive, abandoned, pending, timer,
                 handlers, rsink, nsink, got, out_cmd, in_cmd, answered,
                 rsp_seen, timed_out, disp, fatal>>

\* NciApi::nfc_conn_create(Remote, id, protocol, callback) up to
\* `cmd.send(..).await`
NfcConnCreate(id, protocol) ==
  /\ api = "running"
  /\ api_call = Idle
  /\ api_ret.n < MaxCalls
  /\ sender_alive
  /\ disp = "running"
  /\ Len(cmds) < MaxCmds
  /\ Len(cmd_q) < CmdChannelCapacity
  /\ Enqueue("CoreConnCreate")
  /\ api_call' = [kind |-> "conn_create", cmd |-> Len(cmds) + 1,
                  packet |-> ConnCreateBytes(2, << <<0, <<id, protocol>>>> >>),
                  at |-> emu_rx.n, before |-> OpenConns]
  /\ UNCHANGED <<sender_alive, abandoned, pending, timer, handlers, nsink,
                 got, out_cmd, in_cmd, answered, rsp_seen, timed_out, disp,
                 fatal>>
  /\ UNCHANGED <<conns, out_data, cb_events, api, gh, used, echoed, api_ret,
                 xvars>>

\* the emulator reads the command the dispatcher handed to the transport
NfccReads ==
  /\ api_call.kind = "conn_create"
  /\ api_call.cmd \in Range(out_cmd)
  /\ emu_rx.n = api_call.at
  /\ ControllerRun(api_call.packet)

\* its response arrives at the host
NfccAnswers ==
  /\ api_call.kind = "conn_create"
  /\ emu_rx.n > api_call.at
  /\ HalRespond

\* NciApi::nfc_conn_create from `rx.await` on, with the ConnCreateResponse
\* the emulator wrote
NfcConnCreateReturn ==
  /\ api = "running"
  /\ api_call.kind = "conn_create"
  /\ rsink[api_call.cmd] = "sent"
  /\ LET rp == nci_out[Len(nci_out)]
         c == rp.conn_id
     IN IF rp.status = StatusOk
        THEN /\ conns' = [conns EXCEPT ![c] =
                            NewConn(TRUE, rp.max_data_packet_payload_size,
                                    rp.initial_number_of_credits)]
             /\ gh' = [gh EXCEPT ![c] =
                         [NoGhost EXCEPT !.c0 = rp.initial_number_of_credits]]
             /\ out_data' = [out_data EXCEPT ![c] = <<>>]
             /\ IF conns[c].open
                THEN \* assert!(insert(..).is_none()) in open
                     /\ api' = "panicked"
                     /\ cb_events' = [cb_events EXCEPT ![c] = <<>>]
                     /\ UNCHANGED api_ret
                ELSE /\ api' = api
                     /\ cb_events' = [cb_events EXCEPT ![c] =
                          <<Event(c, NFC_CONN_CREATE_CEVT, <<rp.status>>)>>]
                     /\ api_ret' = Return("conn_create", c, rp.status,
                                          api_call.before, TRUE)
        ELSE /\ api_ret' = Return("conn_create", c, rp.status,
                                  api_call.before, TRUE)
             /\ UNCHANGED <<conns, gh, out_data, cb_events, api>>
  /\ api_call' = Idle
  /\ UNCHANGED <<cmds, cmd_q, sender_alive, abandoned, pending, timer,
                 handlers, rsink, nsink, got, out_cmd, in_cmd, answered,
                 rsp_seen, timed_out, disp, fatal>>
  /\ UNCHANGED <<used, echoed, xvars>>

NextCreate ==
  \/ AddDevice
  \/ \E rf, hci \in BOOLEAN : NfcInitOpen(rf, hci)
  \/ \E id \in 1..2, protocol \in {4, 9} : NfcConnCreate(id, protocol)
  \/ DispatchQueued
  \/ NfccReads
  \/ NfccAnswers
  \/ DispatchResponse
  \/ NfcConnCreateReturn

SpecCreate == Init /\ [][NextCreate]_vars

(***************************************************************************)
(* Properties of the command dispatcher (SpecDispatch)                     *)
(***************************************************************************)

\* commands handed to the transport whose response sink is still held
InFlight == {c \in Range(out_cmd) : rsink[c] = "open"}

Delivered(st) == st \in {"sent", "undeliverable"}

\* C1: at most one command is pending in every reachable state: the only
\* command handed to the transport and not yet answered or timed out is the
\* one in the pending slot, and a step hands a command to the transport only
\* from a state whose pending slot is empty, taking it from the head of the
\* command channel.
C1_OnePendingInv ==
  /\ Cardinality(InFlight) <= 1
  /\ InFlight = (IF pending = NoCmd THEN {} ELSE {pending})
  /\ pending \notin Range(cmd_q)

C1_HandOffStep ==
  out_cmd' /= out_cmd =>
    /\ pending = NoCmd
    /\ cmd_q /= <<>>
    /\ out_cmd' = Append(out_cmd, Head(cmd_q))
    /\ cmd_q' = Tail(cmd_q)
    /\ pending' = Head(cmd_q)

C1_OnePending == [](C1_OnePendingInv) /\ [][C1_HandOffStep]_vars

\* a command is in flight while a later one waits in the command channel
C1_Witness == pending /= NoCmd /\ cmd_q /= <<>> /\ Len(out_cmd) = 1

\* C2: a response sink receives a Response only in a step that takes a
\* Response from the HAL while its command is the pending one and the opcodes
\* are equal; a step that takes a Response while nothing is pending, or whose
\* opcode differs from the pending command's, ends the dispatcher and hands
\* the Response to no sink.
C2_DeliveryStep ==
  \A c \in CmdIds :
    (rsink[c] = "open" /\ Delivered(rsink'[c])) =>
      /\ pending = c
      /\ in_cmd /= <<>>
      /\ Head(in_cmd).mt = "rsp"
      /\ Head(in_cmd).op = cmds[c].op

C2_FatalStep ==
  (/\ rsp_seen' = rsp_seen + 1
   /\ \/ pending = NoCmd
      \/ cmds[pending].op /= Head(in_cmd).op) =>
    /\ disp' = "panicked"
    /\ got' = got
    /\ \A c \in CmdIds : Delivered(rsink'[c]) => rsink'[c] = rsink[c]

C2_ResponseMatching == [][C2_DeliveryStep /\ C2_FatalStep]_vars

\* one command got its response, a later one was pending when a Response
\* with another opcode arrived
C2_Witness ==
  /\ fatal = "response_mismatch"
  /\ \E c \in CmdIds : rsink[c] = "sent"

\* C3: with no timeouts, commands reach the transport in submission order,
\* the i-th submitted command is handed the i-th Response the dispatcher
\* takes, and once the dispatcher has nothing pending and nothing queued it
\* has taken exactly as many Responses as commands were submitted, each
\* handed to its command's sink.
C3_InOrder ==
  /\ \A i \in 1..Len(out_cmd) : out_cmd[i] = i
  /\ timed_out = {} =>
       \A c \in CmdIds : Delivered(rsink[c]) => got[c].idx = c
  /\ (timed_out = {} /\ disp /= "panicked" /\ pending = NoCmd /\ cmd_q = <<>>) =>
       /\ rsp_seen = Len(cmds)
       /\ \A c \in 1..Len(cmds) : rsink[c] = SendTo(c)

\* two commands submitted and both answered, with a notification delivered
\* in between
C3_Witness ==
  /\ Len(cmds) >= 2
  /\ timed_out = {}
  /\ \A c \in 1..Len(cmds) : rsink[c] = "sent"
  /\ \E c \in 1..Len(cmds) : nsink[c] = "sent"

\* C4: a step in which the timer expires with a command pending empties the
\* pending slot, drops that command's response sink, disarms the timer and
\* hands nothing to the transport; the command is never handed to the
\* transport again and never receives a Response; with the slot empty the
\* next queued command can be taken.
C4_TimeoutStep ==
  timed_out' /= timed_out =>
    /\ pending /= NoCmd
    /\ timed_out' = timed_out \cup {pending}
    /\ pending' = NoCmd
    /\ rsink'[pending] = "dropped"
    /\ ~timer'
    /\ out_cmd' = out_cmd
    /\ cmd_q' = cmd_q

C4_TimeoutInv ==
  /\ \A c \in timed_out : rsink[c] = "dropped" /\ got[c] = NoGot
  /\ \A i, j \in 1..Len(out_cmd) : out_cmd[i] = out_cmd[j] => i = j
  /\ (disp = "running" /\ pending = NoCmd /\ cmd_q /= <<>>) =>
       ENABLED DispatchQueued

TakesFromHal == Len(in_cmd') < Len(in_cmd)

C5_NotificationStep ==
  (in_cmd /= <<>> /\ Head(in_cmd).mt = "ntf" /\ TakesFromHal) =>
    LET code == Head(in_cmd).op
        h == handlers[code] IN
      /\ (h /= NoCmd /\ disp' = "running") =>
           /\ handlers'[code] = NoCmd
           /\ nsink[h] = "registered"
           /\ Delivered(nsink'[h])
      /\ h = NoCmd =>
           /\ disp' = "panicked"
           /\ \A c \in CmdIds : Delivered(nsink'[c]) => nsink'[c] = nsink[c]

C5_SingleUseInv ==
  /\ \A o \in Opcodes :
       handlers[o] /= NoCmd =>
         nsink[handlers[o]] = "registered" /\ cmds[handlers[o]].op = o
  /\ \A c \in CmdIds : nsink[c] = "registered" => handlers[cmds[c].op] = c

C5_SingleUse == [](C5_SingleUseInv) /\ [][C5_NotificationStep]_vars

\* a notification was delivered, then a notification arrived with no sink
C5_Witness ==
  /\ fatal = "notification_unhandled"
  /\ \E c \in CmdIds : nsink[c] = "sent"

(***************************************************************************)
(* Properties of the logical-connection registry (SpecConn, SpecLoop)      *)
(***************************************************************************)

Credits(c) == conns[c].nfcc_credits_avail

\* the step replaced connection c's entry by a new one
Reopened(c) ==
  /\ gh'[c] = [NoGhost EXCEPT !.c0 = conns'[c].nfcc_credits_avail]
  /\ out_data'[c] = <<>>
  /\ conns'[c].sendq = <<>>

\* C6: the credit counter of an open connection is never below zero; in
\* every step on a connection that stays open, the packets handed to the
\* transport are covered by the credits held plus those the step received,
\* and the counter does not fall by more than the number of packets handed
\* over.
C6_CounterInv == \A c \in ConnIds : conns[c].open => Credits(c) >= 0

C6_CounterStep ==
  \A c \in ConnIds :
    (conns[c].open /\ conns'[c].open /\ ~Reopened(c)) =>
      LET k == Len(out_data'[c]) - Len(out_data[c]) IN
        /\ k >= 0
        /\ k <= Credits(c) + (gh'[c].r - gh[c].r)
        /\ conns'[c].nfcc_credits_avail >= Credits(c) - k

C6_CreditsOnlySpentOnHandOff == [](C6_CounterInv) /\ [][C6_CounterStep]_vars

\* C7: credit conservation: the counter of an open connection equals the
\* credits it was opened with, minus the packets handed to the transport,
\* plus the credit returns received.
C7_CreditConservation ==
  \A c \in ConnIds :
    conns[c].open => Credits(c) = gh[c].c0 - Len(out_data[c]) + gh[c].r

RECURSIVE Pushed(_)
Pushed(calls) ==
  IF calls = <<>> THEN <<>> ELSE Head(calls).pushed \o Pushed(Tail(calls))

\* C8: on a connection whose send queue was never flushed, the packets
\* handed to the transport followed by the packets still queued are exactly
\* the packets the send_packet calls queued, call after call, each call's
\* segments together and in order, and the payloads of a call's segments
\* concatenate to the payload submitted.
C8_Fifo ==
  \A c \in ConnIds :
    (conns[c].open /\ ~gh[c].flushed) =>
      /\ out_data[c] \o conns[c].sendq = Pushed(gh[c].calls)
      /\ \A i \in 1..Len(gh[c].calls) :
           Payloads(gh[c].calls[i].pushed) = gh[c].calls[i].pkt.payload

\* two calls, the second split, one packet written on the initial credit and
\* the others after a grant
C8_Witness ==
  /\ conns[0].open
  /\ gh[0].c0 = 1
  /\ gh[0].r >= 2
  /\ Len(gh[0].calls) = 2
  /\ Len(gh[0].calls[2].pushed) = 2
  /\ Len(out_data[0]) = 3

CeilDiv(l, m) == (l + m - 1) \div m

\* C9: a send_packet of a payload of length L on a connection with
\* max_payload_size M >= 1 queues, when L > M, exactly ceil(L/M) packets:
\* the j-th carries bytes (j-1)M+1 .. min(jM, L) of the payload, all but the
\* last are Incomplete with M bytes, the last is CompleteOrFinal with at
\* least one byte, all carry the Conn ID of the packet and CR = 0; when
\* L <= M it queues the packet itself.
C9_SegmentsOf(call, m) ==
  LET p == call.pkt.payload
      l == Len(p)
      segs == call.pushed
      n == Len(segs) IN
    IF l > m
    THEN /\ m >= 1
         /\ n = CeilDiv(l, m)
         /\ \A j \in 1..n :
              /\ segs[j].conn_id = call.pkt.conn_id
              /\ segs[j].cr = 0
              /\ segs[j].pbf = (IF j < n THEN "Incomplete" ELSE "CompleteOrFinal")
              /\ Len(segs[j].payload) = (IF j < n THEN m ELSE l - (n - 1) * m)
              /\ Len(segs[j].payload) >= 1
              /\ \A b \in 1..Len(segs[j].payload) :
                   segs[j].payload[b] = p[(j - 1) * m + b]
    ELSE segs = <<call.pkt>>

C9_Segmentation ==
  conns[0].open =>
    \A i \in 1..Len(gh[0].calls) :
      C9_SegmentsOf(gh[0].calls[i], conns[0].max_payload_size)

\* a payload twice as long as max_payload_size was split
C9_Witness ==
  /\ conns[0].open
  /\ \E i \in 1..Len(gh[0].calls) :
       LET l == Len(gh[0].calls[i].pkt.payload) IN
         /\ l > conns[0].max_payload_size
         /\ l = 2 * conns[0].max_payload_size
         /\ Len(gh[0].calls[i].pushed) = 2

\* the DATA events connection c's callback has received
DataEvents(c) == SelectSeq(cb_events[c], LAMBDA e : e.code = NFC_DATA_CEVT)

\* every packet submitted so far ends a message
WholeMessages(c) ==
  \A i \in 1..Len(gh[c].calls) :
    \/ gh[c].calls[i].pkt.pbf = "CompleteOrFinal"
    \/ Len(gh[c].calls[i].pkt.payload) > conns[c].max_payload_size

\* the three header octets of the first segment queued for a packet
FirstHeader(pkt, m) ==
  IF Len(pkt.payload) > m
  THEN <<16 + pkt.conn_id, 0, m>>
  ELSE <<pkt.conn_id, pkt.cr * 64, Len(pkt.payload)>>

Received(c) == SubSeq(out_data[c], 1, echoed)

\* the event codes a sequence of segments calls for: 5 (DATA_START) on an
\* Incomplete segment that begins a message, 3 (DATA) on each CompleteOrFinal
\* segment, nothing on an Incomplete segment inside a message
RECURSIVE CodesFor(_, _)
CodesFor(rx, inside) ==
  IF rx = <<>> THEN <<>>
  ELSE LET inc == Head(rx).pbf = "Incomplete" IN
         (IF inc THEN (IF inside THEN <<>> ELSE <<5>>) ELSE <<3>>)
           \o CodesFor(Tail(rx), inc)

\* the segments received since the last CompleteOrFinal one
RECURSIVE OpenMessage(_)
OpenMessage(rx) ==
  IF rx = <<>> \/ rx[Len(rx)].pbf = "CompleteOrFinal" THEN <<>>
  ELSE Append(OpenMessage(SubSeq(rx, 1, Len(rx) - 1)), rx[Len(rx)])

\* C11: for the segments a connection with a callback has received, the
\* callback was invoked once with DATA_START (code 5, no bytes) for the first
\* segment of every message of two or more segments and once with DATA
\* (code 3) for every final segment, in the order of the segments and with
\* no other invocation; the receive queue holds exactly the segments of the
\* message still open, so it is empty after every DATA.
C11_StartThenData ==
  (conns[0].open /\ disp = "running") =>
    /\ [i \in 1..Len(cb_events[0]) |-> cb_events[0][i].code]
         = CodesFor(Received(0), FALSE)
    /\ \A i \in 1..Len(cb_events[0]) :
         /\ cb_events[0][i].conn_id = 0
         /\ cb_events[0][i].code = 5 => cb_events[0][i].data = <<>>
    /\ conns[0].recvq = OpenMessage(Received(0))

\* a message of three or more segments came back whole
C11_Witness ==
  /\ conns[0].open
  /\ disp = "running"
  /\ echoed >= 3
  /\ \A i \in 1..(echoed - 1) : out_data[0][i].pbf = "Incomplete"
  /\ out_data[0][echoed].pbf = "CompleteOrFinal"
  /\ Len(cb_events[0]) = 2
  /\ conns[0].recvq = <<>>

\* C12: on an open connection it is never the case that the credit counter
\* is greater than zero while the send queue is non-empty.
C12_Drained ==
  \A c \in ConnIds :
    conns[c].open => ~(Credits(c) > 0 /\ conns[c].sendq /= <<>>)

\* opened with one credit, three packets queued, a grant of two: all three
\* written, no credit left
C12_Witness ==
  /\ conns[0].open
  /\ gh[0].c0 = 1
  /\ gh[0].r = 2
  /\ Len(Pushed(gh[0].calls)) = 3
  /\ out_data[0] = Pushed(gh[0].calls)
  /\ conns[0].sendq = <<>>
  /\ Credits(0) = 0

\* C13: a connection that is not open has no send queue and nothing is
\* written for it, whatever credits arrive; and the return of an
\* nfc_conn_close of a connection that was open with a callback leaves the
\* connection out of the registry and comes with exactly one invocation of
\* its callback, with the close event (code 1).
C13_ClosedInv ==
  \A c \in ConnIds : ~conns[c].open => conns[c].sendq = <<>>

C13_ClosedStep ==
  \A c \in ConnIds :
    ~conns'[c].open => out_data'[c] = out_data[c]

C13_ReturnStep ==
  (/\ api_ret'.n /= api_ret.n
   /\ api_ret'.kind = "conn_close"
   /\ api_ret'.conn_id \in api_ret'.before
   /\ api_ret'.cb) =>
    LET c == api_ret'.conn_id IN
      /\ ~conns'[c].open
      /\ \E st \in {StatusOk, StatusRejected} :
           cb_events'[c] = Append(cb_events[c], Event(c, 1, <<st>>))

C13_CloseEvent ==
  [](C13_ClosedInv) /\ [][C13_ClosedStep /\ C13_ReturnStep]_vars

\* C14: a flush returns true exactly when the connection was open; on an
\* open connection it leaves the registry as it was except for that
\* connection's send queue, which is empty afterwards; on a Conn ID that is
\* not open it leaves the registry as it was; in both cases nothing is
\* written to the transport and no callback is invoked.
C14_FlushStep ==
  (api_ret'.n /= api_ret.n /\ api_ret'.kind = "flush") =>
    LET c == api_ret'.conn_id IN
      /\ api_ret'.status = conns[c].open
      /\ \A d \in ConnIds \ {c} : conns'[d] = conns[d]
      /\ conns'[c].open = conns[c].open
      /\ conns'[c].sendq = <<>>
      /\ conns'[c].nfcc_credits_avail = conns[c].nfcc_credits_avail
      /\ conns'[c].recvq = conns[c].recvq
      /\ conns'[c].callback = conns[c].callback
      /\ conns'[c].max_payload_size = conns[c].max_payload_size
      /\ ~conns[c].open => conns' = conns
      /\ out_data' = out_data
      /\ cb_events' = cb_events

C14_FlushFrame == [][C14_FlushStep]_vars

\* a flush of a connection with packets queued and a segment received
\* returned true, and a flush of a connection that is not open returned false
C14_Witness ==
  /\ api_ret.kind = "flush"
  /\ api_ret.status = FALSE
  /\ \E c \in ConnIds :
       /\ conns[c].open
       /\ gh[c].flushed
       /\ conns[c].recvq /= <<>>
       /\ conns[c].sendq = <<>>

(***************************************************************************)
(* C15: dispatcher shutdown                                                *)
(***************************************************************************)

\* the dispatcher has left its loop only with the CommandSender dropped, the
\* channel drained and every submitted command handed to the transport
C15_Drained ==
  disp = "terminated" =>
    /\ ~sender_alive
    /\ cmd_q = <<>>
    /\ pending = NoCmd
    /\ \A c \in 1..Len(cmds) : c \in Range(out_cmd)

\* once the CommandSender is dropped the dispatcher task ends
C15_Terminates == (~sender_alive) ~> (disp \in {"terminated", "panicked"})

\* the dispatcher task ends unless it is waiting for a connection's mutex
C15_TerminatesUnlessBlocked ==
  (~sender_alive) ~> (disp \in {"terminated", "panicked", "blocked"})

\* C15: after the CommandSender is dropped the dispatcher still takes and
\* transmits every command that was queued, never leaves its loop while the
\* channel is open or holds a command, and eventually terminates
C15_Shutdown == [](C15_Drained) /\ C15_Terminates

\* a command taken from the channel and transmitted after the drop
C15_TransmitsAfterDrop ==
  /\ ~sender_alive
  /\ disp = "terminated"
  /\ Len(out_cmd) = 2
  /\ abandoned /= {}

(***************************************************************************)
(* C18 - C20: the emulator's logical-connection table                      *)
(***************************************************************************)

\* the step in which Controller::run handles a packet, and the command in it
EmuStep == emu_rx'.n = emu_rx.n + 1
EmuCmd == ControlPacketParse(emu_rx'.last)
IsCreate == MessageType(emu_rx'.last) = 1 /\ EmuCmd.kind = "CoreConnCreateCommand"

Occupied(lcs) == {i \in Slots : lcs[i] /= NoLogicalConnection}

\* C18: no two occupied slots hold the same (destination type,
\* rf_discovery_id, rf_protocol_type), and at most MAX_LOGICAL_CONNECTIONS = 2
\* connections are open
C18_UniqueDestinations ==
  /\ \A i, j \in Occupied(logical_connections) :
       i /= j => logical_connections[i] /= logical_connections[j]
  /\ Cardinality(Occupied(logical_connections)) <= 2

\* both slots taken, and a create for the destination of slot 0 just refused
C18_Witness ==
  /\ Occupied(logical_connections) = Slots
  /\ emu_rx.last = ConnCreateBytes(2, << <<0, <<1, 4>>>> >>)
  /\ logical_connections[1] = RemoteNfcEndpoint(1, 4)
  /\ nci_out[Len(nci_out)].status = StatusRejected

\* the destination a well-formed create names: one RfDiscovery parameter
\* carrying a discovery id and a valid protocol type
WellFormedCreate(cmd) ==
  /\ cmd.destination_type = "RemoteNfcEndpoint"
  /\ Len(cmd.parameters) = 1
  /\ cmd.parameters[1].id = "RfDiscovery"
  /\ Len(cmd.parameters[1].value) >= 2
  /\ cmd.parameters[1].value[2] \in RfProtocolTypes

DestinationOf(cmd) ==
  RemoteNfcEndpoint(cmd.parameters[1].value[1], cmd.parameters[1].value[2])

LowestFree(lcs, i) ==
  /\ lcs[i] = NoLogicalConnection
  /\ \A j \in Slots : j < i => lcs[j] /= NoLogicalConnection

C19_CreateStep ==
  (/\ EmuStep
   /\ IsCreate
   /\ WellFormedCreate(EmuCmd)
   /\ \A i \in Slots : logical_connections[i] /= DestinationOf(EmuCmd)
   /\ Occupied(logical_connections) /= Slots)
  => \E i \in Slots :
       /\ LowestFree(logical_connections, i)
       /\ logical_connections' =
            [logical_connections EXCEPT ![i] = DestinationOf(EmuCmd)]
       /\ nci_out' = Append(nci_out,
                        CoreConnCreateResponse(StatusOk, 255, 255, i))
       /\ devices' = "Some"

\* C19: a create for RemoteNfcEndpoint with a valid RfDiscovery parameter
\* that is not open, received while a slot is free, is recorded in the
\* lowest free slot and answered Ok with that slot as conn_id, payload size
\* 255 and 255 credits; a freed lowest slot is the one reused
C19_LowestFreeSlot == [][C19_CreateStep]_vars

\* slot 0 was closed while slot 1 stayed open, and the next create took it
C19_Witness ==
  /\ emu_rx.n = 4
  /\ Len(nci_out) = 5
  /\ nci_out[2] = CoreConnCreateResponse(StatusOk, 255, 255, 0)
  /\ nci_out[3] = CoreConnCreateResponse(StatusOk, 255, 255, 1)
  /\ nci_out[4] = CoreConnCloseResponse(StatusOk)
  /\ nci_out[5] = CoreConnCreateResponse(StatusOk, 255, 255, 0)
  /\ logical_connections[0] = RemoteNfcEndpoint(1, 5)
  /\ logical_connections[1] = RemoteNfcEndpoint(2, 4)

\* the RfDiscovery parameter the controller ends up with: the last one
LastParameter(cmd) == cmd.parameters[Len(cmd.parameters)]

LacksDestination(cmd) ==
  \/ cmd.parameters = <<>>
  \/ Len(LastParameter(cmd).value) < 2
  \/ LastParameter(cmd).value[2] \notin RfProtocolTypes

MustReject(lcs, cmd) ==
  \/ cmd.destination_type \in {"NfccLoopback", "Nfcee"}
  \/ \E k \in 1..Len(cmd.parameters) : cmd.parameters[k].id /= "RfDiscovery"
  \/ LacksDestination(cmd)
  \/ \E i \in Slots :
       lcs[i] = RemoteNfcEndpoint(LastParameter(cmd).value[1],
                                  LastParameter(cmd).value[2])
  \/ Occupied(lcs) = Slots

C20_RejectStep ==
  (EmuStep /\ IsCreate /\ MustReject(logical_connections, EmuCmd))
  => /\ logical_connections' = logical_connections
     /\ Len(nci_out') = Len(nci_out) + 1
     /\ nci_out'[Len(nci_out')].kind = "CoreConnCreateResponse"
     /\ nci_out'[Len(nci_out')].status = StatusRejected
     /\ devices' = "Some"

\* C20: a create is answered Rejected and leaves the table unchanged when
\* the destination type is NfccLoopback or Nfcee, a parameter other than
\* RfDiscovery is present, the RfDiscovery parameter is missing or lacks a
\* discovery id or a valid protocol type, the destination is already open,
\* or no slot is free
C20_Rejections == [][C20_RejectStep]_vars

\* a create with an RfDiscovery parameter and one of another type, refused
\* with one connection open and one slot free
C20_Witness ==
  /\ emu_rx.last = ConnCreateBytes(2, << <<0, <<1, 4>>>>, <<1, <<1, 4>>>> >>)
  /\ Occupied(logical_connections) = {0}
  /\ nci_out[Len(nci_out)] =
       CoreConnCreateResponse(StatusRejected, 0, 255, 0)

(***************************************************************************)
(* C16: parse errors                                                       *)
(***************************************************************************)

\* a frame the host cannot parse, a packet the controller cannot parse
HostUnparsable(frame) ==
  \/ frame = <<>>
  \/ /\ frame /= <<>>
     /\ IF IsControlPacket(frame) THEN NciPacketParse(frame) = ParseError
        ELSE DataPacketParse(frame) = ParseError

EmuUnparsable(packet) ==
  \/ MessageType(packet) = 0 /\ packet[3] /= Len(packet) - 3
  \/ MessageType(packet) = 1 /\ ControlPacketParse(packet) = ParseError

C16_HostStep ==
  (hal_rx'.n = hal_rx.n + 1 /\ HostUnparsable(hal_rx'.last))
  => /\ ingress' = "running"
     /\ UNCHANGED <<in_cmd, in_data, disp, conns>>

\* the same for the frames that hold at least one octet
C16_HostStepNonEmpty ==
  (hal_rx'.n = hal_rx.n + 1 /\ hal_rx'.last /= <<>>
     /\ HostUnparsable(hal_rx'.last))
  => /\ ingress' = "running"
     /\ UNCHANGED <<in_cmd, in_data, disp, conns>>

C16_HostNonEmpty == [][C16_HostStepNonEmpty]_vars

C16_EmuStep ==
  (EmuStep /\ EmuUnparsable(emu_rx'.last))
  => /\ devices' = "Some"
     /\ UNCHANGED <<logical_connections, nci_out>>

\* the controller's half alone
C16_EmuParseErrorDropped == [][C16_EmuStep]_vars

\* C16: a received packet whose bytes fail to parse is dropped and nothing
\* else happens: the HAL ingress task of the host and the controller of the
\* emulator stay up, keep their state and go on reading
C16_ParseErrorDropped == [][C16_HostStep /\ C16_EmuStep]_vars

\* the ingress task went on after a frame it could not parse: a later frame
\* was forwarded
C16_HostGoesOn ==
  /\ hal_rx.n = 2
  /\ ingress = "running"
  /\ in_data = <<DataPkt(0, "CompleteOrFinal", 0, <<7>>)>>
  /\ hal_rx.last = <<0, 0, 1, 7>>

(***************************************************************************)
(* C17: reserved Conn IDs                                                  *)
(***************************************************************************)

StaticConnIds == {0, 1}

\* no CoreConnCreateResponse with status Ok names a static Conn ID
C17_NeverAssigned ==
  \A k \in 1..Len(nci_out) :
    (nci_out[k].kind = "CoreConnCreateResponse" /\ nci_out[k].status = StatusOk)
      => nci_out[k].conn_id \notin StaticConnIds

\* nfc_conn_create leaves the open static connections as they are and
\* returns
C17_OpenStep ==
  (api_call.kind = "conn_create" /\ api_call'.kind = "idle")
  => /\ api' = "running"
     /\ \A c \in StaticConnIds : conns[c].open => conns'[c] = conns[c]

\* the host's half alone
C17_NoCollision == [][C17_OpenStep]_vars

\* C17: a connection created through CoreConnCreate / nfc_conn_create is
\* never given Conn ID 0 or 1, and opening it never collides with the static
\* connections nfc_init opened
C17_ReservedConnIds == [](C17_NeverAssigned) /\ [][C17_OpenStep]_vars

(***************************************************************************)
(* C21: CoreConnClose                                                      *)
(***************************************************************************)

IsClose == MessageType(emu_rx'.last) = 1 /\ EmuCmd.kind = "CoreConnCloseCommand"

C21_CloseStep ==
  (EmuStep /\ IsClose)
  => /\ devices' = "Some"
     /\ IF EmuCmd.conn_id \notin Slots
        THEN /\ logical_connections' = logical_connections
             /\ nci_out' = Append(nci_out, CoreConnCloseResponse(StatusRejected))
        ELSE IF logical_connections[EmuCmd.conn_id] = NoLogicalConnection
        THEN /\ logical_connections' = logical_connections
             /\ nci_out' = Append(nci_out, CoreConnCloseResponse(StatusRejected))
        ELSE /\ logical_connections' =
                  [logical_connections EXCEPT ![EmuCmd.conn_id] = NoLogicalConnection]
             /\ nci_out' = Append(nci_out, CoreConnCloseResponse(StatusOk))

\* C21: CoreConnClose answers Rejected and changes nothing when conn_id is
\* 2 or more (any octet) or the slot is empty; otherwise it clears exactly
\* that slot and answers Ok, so that a second close is Rejected and the
\* destination can be created again
C21_Close == [][C21_CloseStep]_vars

\* create, close(0) accepted, close(0) refused, the same create accepted
C21_Witness ==
  /\ Len(nci_out) = 5
  /\ nci_out[2] = CoreConnCreateResponse(StatusOk, 255, 255, 0)
  /\ nci_out[3] = CoreConnCloseResponse(StatusOk)
  /\ nci_out[4] = CoreConnCloseResponse(StatusRejected)
  /\ nci_out[5] = CoreConnCreateResponse(StatusOk, 255, 255, 0)
  /\ emu_rx.last = ConnCreateBytes(2, << <<0, <<1, 4>>>> >>)
  /\ logical_connections[0] = RemoteNfcEndpoint(1, 4)

\* a close of Conn ID 255 was refused with both slots open
C21_OutOfRange ==
  /\ emu_rx.last = ConnCloseBytes(255)
  /\ Occupied(logical_connections) = Slots
  /\ nci_out[Len(nci_out)] = CoreConnCloseResponse(StatusRejected)

(***************************************************************************)
(* C22: CoreSetConfig                                                      *)
(***************************************************************************)

IsSetConfig ==
  MessageType(emu_rx'.last) = 1 /\ EmuCmd.kind = "CoreSetConfigCommand"

\* the positions of a parameter list that carry the id, and the last of them
Positions(ps, id) == {k \in 1..Len(ps) : ps[k].id = id}
LastPosition(ps, id) ==
  CHOOSE k \in Positions(ps, id) : \A j \in Positions(ps, id) : j <= k

RejectedIds(ps) ==
  LET rfu(p) == p.id \in RfuConfigIds
      rejected == SelectSeq(ps, rfu)
  IN [k \in 1..Len(rejected) |-> rejected[k].id]

StoredIds(cfg) == {e[1] : e \in cfg}
EntriesOf(cfg, id) == {e \in cfg : e[1] = id}

C22_SetConfigStep ==
  (EmuStep /\ IsSetConfig)
  => LET ps == EmuCmd.parameters
         rsp == nci_out'[Len(nci_out')]
     IN /\ devices' = "Some"
        /\ \A id \in StoredIds(config_parameters) \cup StoredIds(config_parameters')
                      \cup {ps[k].id : k \in 1..Len(ps)} :
              IF id \notin RfuConfigIds /\ Positions(ps, id) /= {}
              THEN EntriesOf(config_parameters', id)
                     = {<<id, ps[LastPosition(ps, id)].value>>}
              ELSE EntriesOf(config_parameters', id)
                     = EntriesOf(config_parameters, id)
        /\ StoredIds(config_parameters') \cap RfuConfigIds = {}
        /\ nci_out' = Append(nci_out, rsp)
        /\ rsp.kind = "CoreSetConfigResponse"
        /\ rsp.parameters = RejectedIds(ps)
        /\ rsp.status = IF RejectedIds(ps) = <<>> THEN StatusOk
                        ELSE StatusInvalidParam

\* C22: CoreSetConfig stores every parameter whose id is not reserved, also
\* when others of the same command are rejected, and none of the reserved
\* ones; it answers Ok exactly when none was rejected, InvalidParam
\* otherwise, with exactly the rejected ids in the order of the command
C22_SetConfig == [][C22_SetConfigStep]_vars

\* a command that mixes reserved and defined ids was handled: the defined
\* one is stored, the two reserved ones are listed in order
C22_Witness ==
  /\ devices = "Some"
  /\ emu_rx.last = SetConfigBytes(<< <<3, <<1>>>>, <<1, <<1>>>>, <<4, <<>>>> >>)
  /\ <<1, <<1>>>> \in config_parameters
  /\ <<0, <<2>>>> \in config_parameters
  /\ nci_out[Len(nci_out)] = CoreSetConfigResponse(StatusInvalidParam, <<3, 4>>)

(***************************************************************************)
(* C23: CoreGetConfig                                                      *)
(***************************************************************************)

IsGetConfig ==
  MessageType(emu_rx'.last) = 1 /\ EmuCmd.kind = "CoreGetConfigCommand"

\* the value the CoreSetConfig commands `sets` stored last for the id:
\* <<value>>, or <<>> when none of them stored the id
RECURSIVE MostRecentlyStored(_, _)
MostRecentlyStored(sets, id) ==
  IF sets = <<>> THEN <<>>
  ELSE LET ps == ControlPacketParse(sets[Len(sets)]).parameters
       IN IF id \notin RfuConfigIds /\ Positions(ps, id) /= {}
          THEN <<ps[LastPosition(ps, id)].value>>
          ELSE MostRecentlyStored(SubSeq(sets, 1, Len(sets) - 1), id)

C23_GetConfigStep ==
  (EmuStep /\ IsGetConfig)
  => LET ids == EmuCmd.parameters
         absent(id) == \A e \in config_parameters : e[1] /= id
         absent_ids == SelectSeq(ids, absent)
         rsp == nci_out'[Len(nci_out')]
     IN /\ devices' = "Some"
        /\ config_parameters' = config_parameters
        /\ nci_out' = Append(nci_out, rsp)
        /\ rsp.kind = "CoreGetConfigResponse"
        /\ IF absent_ids = <<>>
           THEN /\ rsp.status = StatusOk
                /\ Len(rsp.parameters) = Len(ids)
                /\ \A k \in 1..Len(ids) :
                      /\ rsp.parameters[k].id = ids[k]
                      /\ <<rsp.parameters[k].value>>
                           = MostRecentlyStored(emu_rx.sets, ids[k])
           ELSE /\ rsp.status = StatusInvalidParam
                /\ Len(rsp.parameters) = Len(absent_ids)
                /\ \A k \in 1..Len(absent_ids) :
                      /\ rsp.parameters[k].id = absent_ids[k]
                      /\ rsp.parameters[k].value = <<>>

\* C23: CoreGetConfig leaves the configuration map unchanged; when every
\* requested id is present it answers Ok with each (id, value most recently
\* stored by CoreSetConfig) in order, and when any is absent it answers
\* InvalidParam with only the absent ids, each with a value of length zero
C23_GetConfig == [][C23_GetConfigStep]_vars

\* parameter 0 was stored twice; the read of 1 and 0 returns the later value
C23_Witness ==
  /\ devices = "Some"
  /\ emu_rx.last = GetConfigBytes(<<1, 0>>)
  /\ Len(emu_rx.sets) = 3
  /\ nci_out[Len(nci_out)]
       = CoreGetConfigResponse(StatusOk, <<ConfigParameter(1, <<2>>),
                                           ConfigParameter(0, <<2>>)>>)

\* parameter 0 is present, 3 and 1 are not: only these two are listed
C23_AbsentListed ==
  /\ devices = "Some"
  /\ emu_rx.last = GetConfigBytes(<<0, 3, 1>>)
  /\ <<0, <<1>>>> \in config_parameters
  /\ nci_out[Len(nci_out)]
       = CoreGetConfigResponse(StatusInvalidParam,
                               <<ConfigParameter(3, <<>>),
                                 ConfigParameter(1, <<>>)>>)

(***************************************************************************)
(* C24: CoreReset                                                          *)
(***************************************************************************)

IsReset == MessageType(emu_rx'.last) = 1 /\ EmuCmd.kind = "CoreResetCommand"

C24_ResetStep ==
  (EmuStep /\ IsReset)
  => /\ devices' = "Some"
     /\ Len(nci_out') = Len(nci_out) + 2
     /\ SubSeq(nci_out', 1, Len(nci_out)) = nci_out
     /\ LET rsp == nci_out'[Len(nci_out) + 1]
            ntf == nci_out'[Len(nci_out) + 2]
        IN /\ rsp.kind = "CoreResetResponse"
           /\ rsp.status = StatusOk
           /\ ntf.kind = "CoreResetNotification"
           /\ ntf.trigger = "ResetCommand"
           /\ EmuCmd.reset_type = "KeepConfig"
                => ntf.config_status = "ConfigKept"
           /\ EmuCmd.reset_type = "ResetConfig"
                => ntf.config_status = "ConfigReset"
           /\ EmuCmd.reset_type \in {"KeepConfig", "ResetConfig"}

\* C24: CoreReset writes CoreResetResponse(Ok) first and then, with no packet
\* in between, a CoreResetNotification with trigger ResetCommand and
\* config_status ConfigKept for KeepConfig, ConfigReset for ResetConfig
C24_Reset == [][C24_ResetStep]_vars

\* both reset types were handled, KeepConfig last
C24_Witness ==
  /\ devices = "Some"
  /\ emu_rx.last = ResetBytes(0)
  /\ Len(nci_out) = 5
  /\ nci_out[2].kind = "CoreResetResponse"
  /\ nci_out[3].kind = "CoreResetNotification"
  /\ nci_out[3].config_status = "ConfigReset"
  /\ nci_out[4].kind = "CoreResetResponse"
  /\ nci_out[5].kind = "CoreResetNotification"
  /\ nci_out[5].config_status = "ConfigKept"

(***************************************************************************)
(* C25: the scene's device slots                                           *)
(***************************************************************************)

OccupiedDevices(d0, d1) ==
  {id \in DeviceIds : IF id = 0 THEN d0 = "Some" ELSE d1 /= 0}

\* a step of add_device: it returned something else than the last time, or a
\* slot that was empty holds a device
AcceptStep ==
  \/ add_device' /= add_device
  \/ OccupiedDevices(devices', device1') \ OccupiedDevices(devices, device1)
       /= {}

C25_AcceptStep ==
  AcceptStep
  => LET before == OccupiedDevices(devices, device1)
         free == DeviceIds \ before
     IN IF free = {}
        THEN /\ add_device'.res = "Err"
             /\ UNCHANGED <<devices, device1, logical_connections,
                            config_parameters, nci_out>>
        ELSE LET lowest == CHOOSE id \in free : \A j \in free : id <= j
             IN /\ add_device' = [res |-> "Ok", id |-> lowest]
                /\ OccupiedDevices(devices', device1')
                     = before \cup {lowest}
                /\ lowest = 0
                     => /\ UNCHANGED device1
                        /\ logical_connections'
                             = [i \in Slots |-> NoLogicalConnection]
                        /\ nci_out' = <<PowerOnNotification>>
                /\ lowest = 1
                     => /\ device1' = 1
                        /\ UNCHANGED <<devices, logical_connections,
                                       config_parameters, nci_out>>

\* the controller of slot 0 read a packet that does not parse: its task ends
\* with an error
C25_ErrorStep ==
  (EmuStep /\ EmuUnparsable(emu_rx'.last))
  => /\ devices' = "None"
     /\ UNCHANGED device1

\* C25: the scene holds at most MAX_DEVICES = 2 devices; an accepted
\* connection takes the lowest free slot; with both slots occupied the
\* connection is refused and the devices stay as they are; the slot of a
\* controller task that ended with an error is freed, and can be taken again
C25_Scene ==
  /\ [](Cardinality(OccupiedDevices(devices, device1)) <= MAX_DEVICES)
  /\ [][C25_AcceptStep /\ C25_ErrorStep]_vars

\* slot 0 was freed by an error of its task while slot 1 stayed occupied, and
\* the next connection took slot 0 again
C25_Witness ==
  /\ devices = "Some"
  /\ device1 > 1
  /\ add_device = [res |-> "Ok", id |-> 0]
  /\ emu_rx.n > 0
  /\ EmuUnparsable(emu_rx.last)
  /\ nci_out = <<PowerOnNotification>>

\* a third connection was refused; both devices are as they were
C25_Refused ==
  /\ add_device.res = "Err"
  /\ devices = "Some"
  /\ device1 > 1
  /\ logical_connections[0] /= NoLogicalConnection

\* slot 1 was freed by an error of its task and taken again while slot 0
\* stayed occupied
C25_Slot1Reused ==
  /\ add_device = [res |-> "Ok", id |-> 1]
  /\ devices = "Some"
  /\ device1 = 1
  /\ logical_connections[0] /= NoLogicalConnection

(***************************************************************************)
(* C26: the notification registry after a command timeout                  *)
(***************************************************************************)

\* no opcode is held in the registry by a command the timer discarded
C26_OpcodeFreed ==
  \A c \in timed_out : cmds[c].ntf => handlers[cmds[c].op] /= c

\* the dispatcher does not die in EventRegistry::register because of the
\* handler of a command that timed out
C26_LaterAcceptedStep ==
  (fatal = "" /\ fatal' = "register")
  => handlers[cmds[Recv(cmd_q)].op] \notin timed_out

\* C26: after a send_and_notify command times out its opcode is no longer
\* occupied in the notification registry, and a later send_and_notify with
\* the same opcode is accepted instead of failing the duplicate-registration
\* assertion
C26_TimeoutFreesOpcode ==
  /\ []C26_OpcodeFreed
  /\ [][C26_LaterAcceptedStep]_vars

C26_LaterAccepted == [][C26_LaterAcceptedStep]_vars

(***************************************************************************)
(* C27: a response that arrives after its command timed out                *)
(***************************************************************************)

IsLateResponse ==
  /\ disp = "running"
  /\ rsp_seen' = rsp_seen + 1
  /\ Head(in_cmd).re \in timed_out

C27_LateResponseStep ==
  IsLateResponse
  => /\ disp' = "running"
     /\ in_cmd' = Tail(in_cmd)
     /\ UNCHANGED <<got, rsink, pending>>

\* C27: a response that arrives after its command timed out is discarded:
\* it is not delivered as the answer to a later command, also not to one
\* with the same opcode, and the dispatcher keeps running
C27_LateResponseDiscarded == [][C27_LateResponseStep]_vars

\* the two ways it goes wrong, each alone
C27_NotDeliveredToLater ==
  \A c \in CmdIds : got[c].re /= NoCmd /\ got[c].re \in timed_out
                      => got[c].re = c
C27_KeepsRunning ==
  [][IsLateResponse => disp' = "running"]_vars

(***************************************************************************)
(* C28: termination of send_packet                                         *)
(***************************************************************************)

\* C28: send_packet terminates, having queued finitely many packets, for
\* every payload and every max_payload_size, 0 included: no call is left in
\* its splitting loop
C28_SendPacketTerminates ==
  /\ api /= "diverged"
  /\ \A c \in ConnIds : conns[c].mutex /= "held"

(***************************************************************************)
(* C29: the credit counter is an 8-bit number                              *)
(***************************************************************************)

\* the credits a step grants to connection c
GrantedTo(c) == gh'[c].r - gh[c].r

C29_NoOverflowStep ==
  \A c \in ConnIds :
    (conns[c].open /\ conns'[c].open /\ ~Reopened(c) /\ GrantedTo(c) > 0)
    => /\ Credits(c) + GrantedTo(c) <= U8Max
       /\ conns'[c].nfcc_credits_avail
            = Credits(c) + GrantedTo(c)
                - (Len(out_data'[c]) - Len(out_data[c]))

\* C29: the 8-bit credit counter never overflows or wraps, also on a
\* connection opened with 255 credits: every grant adds to it exactly
C29_NoOverflow == [][C29_NoOverflowStep]_vars

(***************************************************************************)
(* C30: what nfc_conn_close leaves in the registry                         *)
(***************************************************************************)

C30_ReturnStep ==
  (api_ret'.n /= api_ret.n /\ api_ret'.kind = "conn_close")
  => LET open_after == {c \in ConnIds : conns'[c].open}
     IN IF api_ret'.status = StatusOk
        THEN open_after = api_ret'.before \ {api_ret'.conn_id}
        ELSE open_after = api_ret'.before

\* C30: nfc_conn_close removes a connection from the registry only when it
\* returns Ok; when it returns InvalidParam, Rejected, Failed or
\* NotInitialized, or an error (timeout), the registry holds the connections
\* it held when the call was made
C30_RemovedOnlyOnOk == [][C30_ReturnStep]_vars

\* the refusals, one at a time
C30_RejectedKeeps ==
  [][(api_ret'.n /= api_ret.n /\ api_ret'.kind = "conn_close"
        /\ api_ret'.status = StatusRejected)
     => {c \in ConnIds : conns'[c].open} = api_ret'.before]_vars
C30_TimeoutKeeps ==
  [][(api_ret'.n /= api_ret.n /\ api_ret'.kind = "conn_close"
        /\ api_ret'.status = "Err")
     => {c \in ConnIds : conns'[c].open} = api_ret'.before]_vars
C30_InvalidParamKeeps ==
  [][(api_ret'.n /= api_ret.n /\ api_ret'.kind = "conn_close"
        /\ api_ret'.status = StatusInvalidParam)
     => {c \in ConnIds : conns'[c].open} = api_ret'.before]_vars

(***************************************************************************)
(* C31: inbound data on a connection whose callback is unset               *)
(***************************************************************************)

\* the dispatcher took a data packet for connection c, which is open with
\* no callback; the credits the packet returns fit
DataForUnsetCallback(c) ==
  /\ used'.data = used.data + 1
  /\ disp = "running"
  /\ conns[c].open
  /\ ~conns[c].callback
  /\ conns[c].mutex = "free"
  /\ conns'[c] /= conns[c]
  /\ Credits(c) + GrantedTo(c) <= U8Max

C31_UnsetCallbackStep ==
  \A c \in ConnIds :
    DataForUnsetCallback(c)
    => /\ disp' = "running"
       /\ conns'[c].mutex = "free"

\* C31: an inbound data packet for an open connection whose callback is
\* unset does not abort the dispatcher, which goes on with later packets and
\* commands
C31_DispatcherSurvives == [][C31_UnsetCallbackStep]_vars

(***************************************************************************)
(* C32: every accepted command is resolved                                 *)
(***************************************************************************)

\* command c is in the command channel or pending in the dispatcher
Accepted32(c) == c \in Range(cmd_q) \/ pending = c

\* the caller of c has its answer: the response, or the error of a closed
\* response channel
Resolved(c) == rsink[c] \in {"sent", "undeliverable", "dropped"}

\* C32: every command accepted into the command channel is eventually
\* resolved: its caller receives the matching response or the error of the
\* response channel closed by the timeout, and no queued command waits
\* forever behind a pending one
C32_EventuallyResolved ==
  \A c \in CmdIds : Accepted32(c) ~> Resolved(c)

\* the same, unless the dispatcher is waiting for a connection's mutex
C32_ResolvedUnlessBlocked ==
  \A c \in CmdIds : Accepted32(c) ~> (Resolved(c) \/ disp = "blocked")

(***************************************************************************)
(* C33: what the dispatcher does when it accepts a queued command          *)
(***************************************************************************)

\* the command at the head of the channel was handed to the transport
C33_AcceptStep ==
  (out_cmd' /= out_cmd)
  => LET c == Head(cmd_q)
         op == cmds[c].op
     IN /\ pending = NoCmd
        /\ out_cmd' = Append(out_cmd, c)
        /\ pending' = c
        /\ timer'
        /\ cmd_q' = Tail(cmd_q)
        /\ IF cmds[c].ntf
           THEN /\ handlers[op] = NoCmd
                /\ handlers' = [handlers EXCEPT ![op] = c]
                /\ nsink'[c] = "registered"
           ELSE handlers' = handlers

\* the dispatcher died in EventRegistry::register
C33_FatalStep ==
  (fatal = "" /\ fatal' = "register")
  => LET c == Head(cmd_q)
     IN /\ cmds[c].ntf
        /\ handlers[cmds[c].op] /= NoCmd
        /\ out_cmd' = out_cmd
        /\ disp' = "panicked"

\* the head command carries a sink for an opcode that has one: taking it is
\* fatal
C33_DuplicateStep ==
  (/\ disp = "running" /\ pending = NoCmd /\ cmd_q /= <<>>
   /\ cmd_q' /= cmd_q /\ Len(cmds') = Len(cmds)
   /\ cmds[Head(cmd_q)].ntf
   /\ handlers[cmds[Head(cmd_q)].op] /= NoCmd)
  => disp' = "panicked"

\* a command that is with the transport has had its sink registered
C33_SinkExists ==
  \A c \in Range(out_cmd) : cmds[c].ntf => nsink[c] /= "queued"

\* C33: when the dispatcher accepts a queued command its notification sink,
\* if any, is registered under the command's opcode before the command is
\* handed to the transport; registering over an existing sink is fatal; in
\* the same step the timer is armed and the command becomes the pending one;
\* so no command is with the transport before its sink exists
C33_Accept ==
  /\ []C33_SinkExists
  /\ [][C33_AcceptStep /\ C33_FatalStep /\ C33_DuplicateStep]_vars

\* a command with a sink is pending, registered and with the transport
C33_Witness ==
  /\ pending /= NoCmd
  /\ cmds[pending].ntf
  /\ handlers[cmds[pending].op] = pending
  /\ timer
  /\ out_cmd[Len(out_cmd)] = pending
  /\ Len(out_cmd) = 2

\* the fatal registration was reached
C33_FatalReached == fatal = "register"

(***************************************************************************)
(* C34: LogicalConnectionsRegistry::open                                   *)
(***************************************************************************)

\* what a step that is the call open(o[1], o[2], o[3], o[4]) must do
C34_OpenCall(o) ==
  Open(o[1], o[2], o[3], o[4])
  => IF conns[o[1]].open
     THEN api' = "panicked"
     ELSE /\ api' = "running"
          /\ conns'[o[1]].open
          /\ conns'[o[1]].callback = o[2]
          /\ conns'[o[1]].max_payload_size = o[3]
          /\ conns'[o[1]].nfcc_credits_avail = o[4]
          /\ conns'[o[1]].sendq = <<>>
          /\ conns'[o[1]].recvq = <<>>
          /\ \A d \in ConnIds \ {o[1]} : conns'[d] = conns[d]

\* a connection appears in the registry only as some open call gave it
C34_AppearsStep ==
  \A c \in ConnIds :
    (~conns[c].open /\ conns'[c].open)
    => \E o \in OpenInputs :
         /\ o[1] = c
         /\ conns'[c].callback = o[2]
         /\ conns'[c].max_payload_size = o[3]
         /\ conns'[c].nfcc_credits_avail = o[4]

\* C34: open on a Conn ID that is not open adds a connection with the given
\* callback, max payload size and credits and with empty send and receive
\* queues, and leaves the other connections as they are; open on a Conn ID
\* that is open is fatal
C34_Open ==
  [][(\A o \in OpenInputs : C34_OpenCall(o)) /\ C34_AppearsStep]_vars

\* connection 0 was opened with 255 credits next to the open connection 1
C34_Witness ==
  /\ api = "running"
  /\ conns[1].open
  /\ conns[1].sendq /= <<>>
  /\ conns[0].open
  /\ conns[0].nfcc_credits_avail = U8Max
  /\ conns[0].max_payload_size = 2
  /\ conns[0].sendq = <<>>
  /\ gh[0] = [NoGhost EXCEPT !.c0 = U8Max]

\* an open on an open Conn ID ended the caller
C34_FatalReached ==
  /\ api = "panicked"
  /\ \A c \in ConnIds : conns[c].mutex = "free"
  /\ conns[0].open

(***************************************************************************)
(* C35: a command the emulator does not handle                             *)
(***************************************************************************)
\* a command packet that parses and whose group or opcode has no handler
IsUnsupportedCommand(packet) ==
  /\ MessageType(packet) = 1
  /\ ControlPacketParse(packet) /= ParseError
  /\ ControlPacketParse(packet).kind = "Unsupported"

UnsupportedPackets == {packet \in ScenePackets : IsUnsupportedCommand(packet)}

\* C35: when a controller receives a command with an unhandled opcode or
\* an unknown group, only that controller's task ends: the scene frees the
\* slot of that device (it becomes None), the device in the other slot
\* stays connected, and the scene (with its listener) keeps running
C35_Slot0Step ==
  \A packet \in UnsupportedPackets :
    ControllerRun(packet) => devices' = "None" /\ device1' = device1
C35_Slot1Step ==
  \A packet \in UnsupportedPackets :
    Device1Run(packet) => device1' = 0 /\ devices' = devices
C35_OnlyThatTaskFails == [][C35_Slot0Step /\ C35_Slot1Step]_vars

\* an unhandled command has been read by the controller of slot 0 while
\* another device was connected
C35_UnsupportedReceived ==
  /\ emu_rx.n > 0
  /\ IsUnsupportedCommand(emu_rx.last)
  /\ devices = "Panicked"

(***************************************************************************)
(* C36: NCI data packets received by the emulator                          *)
(***************************************************************************)
\* nci::DataPacket::parse(&packet) succeeds
IsDataPacket(packet) ==
  /\ Len(packet) >= 3
  /\ MessageType(packet) = 0
  /\ packet[3] = Len(packet) - 3

\* C36: an NCI data packet received by a controller is accepted without
\* being processed: the configuration map and the logical-connection table
\* are unchanged and the controller keeps running
C36_DataStep ==
  \A packet \in ScenePackets :
    (IsDataPacket(packet) /\ ControllerRun(packet))
      => /\ devices' = "Some"
         /\ config_parameters' = config_parameters
         /\ logical_connections' = logical_connections
C36_DataAccepted == [][C36_DataStep]_vars

(***************************************************************************)
(* C37: config_status of the reset notification and the stored parameters  *)
(***************************************************************************)
\* the command handled last was a CoreReset of this type
LastResetWas(reset_type) ==
  /\ devices = "Some"
  /\ emu_rx.n > 0
  /\ MessageType(emu_rx.last) = 1
  /\ ControlPacketParse(emu_rx.last) /= ParseError
  /\ ControlPacketParse(emu_rx.last).kind = "CoreResetCommand"
  /\ ControlPacketParse(emu_rx.last).reset_type = reset_type

\* the ids CoreGetConfig would return a stored value for
ReturnedIds ==
  {id \in 0..7 :
     CoreGetConfig(config_parameters,
                   [kind |-> "CoreGetConfigCommand",
                    parameters |-> <<id>>]).status = StatusOk}

\* C37: the config_status announced by CoreReset agrees with the state:
\* after a reset answered with ConfigReset no parameter stored earlier is
\* returned by CoreGetConfig any more
C37_ResetForgets == LastResetWas("ResetConfig") => ReturnedIds = {}

\* C37, the other half: a reset answered with ConfigKept leaves every stored
\* parameter as it was
C37_KeptStep ==
  (EmuStep /\ IsReset /\ EmuCmd.reset_type = "KeepConfig")
    => config_parameters' = config_parameters
C37_ConfigKept == [][C37_KeptStep]_vars

\* a parameter was stored and a reset answered with ConfigReset followed
C37_ResetAfterStore ==
  /\ LastResetWas("ResetConfig")
  /\ emu_rx.sets /= <<>>
  /\ nci_out[Len(nci_out)].config_status = "ConfigReset"

(***************************************************************************)
(* The scene's RF relay (main.rs: run, Scene::send; controller.rs: send_rf,*)
(* receive_rf)                                                             *)
(***************************************************************************)
\* mpsc::channel(2): the RF mailbox of run and the RF inbox of each Device
RfChannelCapacity == 2

\* how many payloads the controllers hand to send_rf in one run
MaxRf == 3

RfPayloads == {<<1>>, <<2>>}

\* Controller::send_rf of the controller in slot id
SendRf(id, payload) ==
  /\ devices /= "Panicked"
  /\ scene_send = <<>>
  /\ id \in OccupiedDevices(devices, device1)
  /\ Len(rf_mailbox) < RfChannelCapacity
  /\ Len(rf_log) + Len(rf_mailbox) < MaxRf
  /\ rf_mailbox' = Append(rf_mailbox, <<id, payload>>)
  /\ UNCHANGED <<rf_inbox, rf_log, scene_send, wvars>>
  /\ UNCHANGED <<devices, logical_connections, nci_out, emu_rx,
                 config_parameters, device1, add_device>>
  /\ UNCHANGED <<hvars, avars>>
  /\ UNCHANGED <<cmds, cmd_q, sender_alive, abandoned, pending, timer,
                 handlers, rsink, nsink, got, out_cmd, in_cmd, answered,
                 rsp_seen, timed_out, disp, fatal>>
  /\ UNCHANGED <<conns, out_data, cb_events, api, gh, used, echoed>>

\* Scene::send, the loop from slot id on: the inboxes afterwards, and the
\* rf_tx.send(..) it is left awaiting when an inbox has no room
RECURSIVE SceneSend(_, _, _, _, _)
SceneSend(id, sender_id, packet, inbox, occupied) ==
  IF id >= MAX_DEVICES
  THEN [inbox |-> inbox, awaiting |-> <<>>]
  ELSE IF id = sender_id
  THEN SceneSend(id + 1, sender_id, packet, inbox, occupied)
  ELSE IF id \in occupied
  THEN IF Len(inbox[id]) < RfChannelCapacity
       THEN SceneSend(id + 1, sender_id, packet,
                      [inbox EXCEPT ![id] = Append(@, packet)], occupied)
       ELSE [inbox |-> inbox, awaiting |-> <<id, packet>>]
  ELSE SceneSend(id + 1, sender_id, packet, inbox, occupied)

\* run: `result = rf_rx.recv()` then scene.send(sender_id, &packet).await
SceneRelay ==
  /\ devices /= "Panicked"
  /\ scene_send = <<>>
  /\ rf_mailbox /= <<>>
  /\ LET pulled == Head(rf_mailbox)
         r == SceneSend(0, pulled[1], pulled[2], rf_inbox,
                        OccupiedDevices(devices, device1))
     IN /\ rf_mailbox' = Tail(rf_mailbox)
        /\ rf_log' = Append(rf_log, pulled)
        /\ rf_inbox' = r.inbox
        /\ scene_send' = r.awaiting
  /\ UNCHANGED wvars
  /\ UNCHANGED <<devices, logical_connections, nci_out, emu_rx,
                 config_parameters, device1, add_device>>
  /\ UNCHANGED <<hvars, avars>>
  /\ UNCHANGED <<cmds, cmd_q, sender_alive, abandoned, pending, timer,
                 handlers, rsink, nsink, got, out_cmd, in_cmd, answered,
                 rsp_seen, timed_out, disp, fatal>>
  /\ UNCHANGED <<conns, out_data, cb_events, api, gh, used, echoed>>

\* Controller::run of the controller in slot id: `result = self.rf_rx.recv()`
\* then receive_rf, which is todo!()
ReceiveRf(id) ==
  /\ devices /= "Panicked"
  /\ scene_send = <<>>
  /\ id \in OccupiedDevices(devices, device1)
  /\ rf_inbox[id] /= <<>>
  /\ devices' = Unwound.devices
  /\ device1' = 0
  /\ logical_connections' = Unwound.lcs
  /\ config_parameters' = Unwound.cfg
  /\ emu_rx' = [emu_rx EXCEPT !.sets = <<>>]
  /\ rf_inbox' = [i \in DOMAIN rf_inbox |-> <<>>]
  /\ UNCHANGED <<rf_mailbox, rf_log, scene_send, wvars>>
  /\ UNCHANGED <<nci_out, add_device>>
  /\ UNCHANGED <<hvars, avars>>
  /\ UNCHANGED <<cmds, cmd_q, sender_alive, abandoned, pending, timer,
                 handlers, rsink, nsink, got, out_cmd, in_cmd, answered,
                 rsp_seen, timed_out, disp, fatal>>
  /\ UNCHANGED <<conns, out_data, cb_events, api, gh, used, echoed>>

\* the NCI packets of this run: a command that is answered and one that
\* does not parse, which ends the controller and frees its slot
RelayPackets == {ConnCloseBytes(0), CommandHeader(5, 0)}

NextRelay ==
  \/ AddDevice
  \/ \E packet \in RelayPackets : ControllerRun(packet)
  \/ \E packet \in RelayPackets : Device1Run(packet)
  \/ \E id \in DeviceIds, payload \in RfPayloads : SendRf(id, payload)
  \/ SceneRelay
  \/ \E id \in DeviceIds : ReceiveRf(id)

SpecRelay == Init /\ [][NextRelay]_vars

(***************************************************************************)
(* C38: relay of the RF mailbox                                            *)
(***************************************************************************)
\* run pulled Head(rf_mailbox) in this step
PulledStep == rf_log' /= rf_log

\* what the claim says the inboxes are after the pull
RelayedInbox(id) ==
  LET pulled == Head(rf_mailbox)
  IN IF id /= pulled[1] /\ id \in OccupiedDevices(devices, device1)
     THEN Append(rf_inbox[id], pulled[2])
     ELSE rf_inbox[id]

\* C38: for every (sender_id, payload) pulled from the RF mailbox the
\* payload is put into the RF inbox of every occupied slot other than
\* sender_id, never into the sender's own inbox and never into that of an
\* empty slot; payloads are relayed in the order they were pulled (each is
\* put behind the ones relayed before)
C38_RelayStep ==
  PulledStep => \A id \in DeviceIds : rf_inbox'[id] = RelayedInbox(id)
C38_RelayWhenRoom ==
  [][(PulledStep /\ scene_send' = <<>>)
       => \A id \in DeviceIds : rf_inbox'[id] = RelayedInbox(id)]_vars

\* a send that finds the inbox full is never completed: nothing moves after
C38_AwaitingForever == [][scene_send /= <<>> => UNCHANGED vars]_vars

\* a payload was relayed to slot 1 and a later one from slot 1 to slot 0
C38_RelayedBothWays ==
  /\ Len(rf_log) >= 2
  /\ rf_inbox[0] /= <<>>
  /\ rf_inbox[1] /= <<>>
  /\ scene_send = <<>>

(***************************************************************************)
(* The emulator's NCI transport (main.rs: NciWriter::write)                *)
(***************************************************************************)
\* `std::cmp::min(255, packet.len())`: the largest payload of a segment
MaxChunk == 255

\* `const PBF_MASK: u8 = 0x10`
PBF_MASK == 16

\* nci::PacketBoundaryFlag as u8
PbfCompleteOrFinal == 0
PbfIncomplete == 1

\* how many full segments the longest packet written has
MaxSegments == 3

\* nci::PacketHeader::get_pbf of the first header octet
GetPbf(octet) == (octet \div PBF_MASK) % 2

\* `header_bytes[0] &= !PBF_MASK; header_bytes[0] |= (pbf as u8) << 4`
SetPbf(octet, pbf) == octet - GetPbf(octet) * PBF_MASK + pbf * PBF_MASK

\* `if chunk_length < packet.len() { Incomplete } else { CompleteOrFinal }`
PbfAlwaysFinal(chunk_length, len) == PbfCompleteOrFinal
PbfOf(chunk_length, len) ==
  IF chunk_length < len THEN PbfIncomplete ELSE PbfCompleteOrFinal

\* the loop of NciWriter::write: the segments written for the rest of the
\* payload, header_bytes being <<octet0, octet1, _>>
RECURSIVE WriteLoop(_, _, _)
WriteLoop(octet0, octet1, packet) ==
  LET chunk_length == IF MaxChunk < Len(packet) THEN MaxChunk ELSE Len(packet)
      pbf == PbfOf(chunk_length, Len(packet))
      header_bytes == <<SetPbf(octet0, pbf), octet1, chunk_length>>
      rest == SubSeq(packet, chunk_length + 1, Len(packet))
      segment == header_bytes \o SubSeq(packet, 1, chunk_length)
  IN IF rest = <<>>
     THEN <<segment>>
     ELSE <<segment>> \o WriteLoop(header_bytes[1], octet1, rest)

\* NciWriter::write(packet): what it writes to the socket, segment by segment
NciWrite(packet) ==
  WriteLoop(packet[1], packet[2], SubSeq(packet, 4, Len(packet)))

\* a payload of len octets that differ from their neighbours
PayloadOf(len, seed) == [i \in 1..len |-> (i * seed + seed) % 256]

\* lengths around every multiple of the segment size, and the short ones
WriteLengths ==
  {0, 1, 2} \cup {k * MaxChunk + d : k \in 1..MaxSegments, d \in {-1, 0, 1}}

\* data, data with the PBF bit set by the caller, a response, a notification
WritePackets ==
  {<<octet0, octet1, len % 256>> \o PayloadOf(len, seed) :
     octet0 \in {0, 16 + 1, 64, 96 + 1}, octet1 \in {0, 5},
     len \in WriteLengths, seed \in {1, 7}}

\* send_control / send_data: self.nci_writer.write(&packet.to_vec())
WriterWrite(packet) ==
  /\ nci_write' = [packet |-> packet, segments |-> NciWrite(packet)]
  /\ UNCHANGED <<socket_in, read_ret, rvars>>
  /\ UNCHANGED <<devices, logical_connections, nci_out, emu_rx,
                 config_parameters, device1, add_device>>
  /\ UNCHANGED <<hvars, avars>>
  /\ UNCHANGED <<cmds, cmd_q, sender_alive, abandoned, pending, timer,
                 handlers, rsink, nsink, got, out_cmd, in_cmd, answered,
                 rsp_seen, timed_out, disp, fatal>>
  /\ UNCHANGED <<conns, out_data, cb_events, api, gh, used, echoed>>

NextWrite == \E packet \in WritePackets : WriterWrite(packet)

SpecWrite == Init /\ [][NextWrite]_vars

(***************************************************************************)
(* C39: segmentation by NciWriter::write                                   *)
(***************************************************************************)
RECURSIVE ConcatPayloads(_)
ConcatPayloads(segments) ==
  IF segments = <<>> THEN <<>>
  ELSE SubSeq(Head(segments), 4, Len(Head(segments)))
         \o ConcatPayloads(Tail(segments))

\* the octet with bit 4 cleared
WithoutPbf(octet) == octet - GetPbf(octet) * PBF_MASK

\* C39: a write of a packet with a payload of L octets emits
\* max(1, ceil(L / 255)) segments; each carries octets 0 and 1 of the packet
\* with only the PBF bit (bit 4 of octet 0) rewritten and has the size of
\* its chunk as length octet; every chunk but the last has exactly 255
\* octets and PBF Incomplete, the last has PBF CompleteOrFinal (and is not
\* empty unless L = 0); the chunks concatenate to the payload
C39_Segments ==
  nci_write.packet /= <<>> =>
    LET packet == nci_write.packet
        segments == nci_write.segments
        l == Len(packet) - 3
        n == Len(segments)
    IN /\ n = (IF l = 0 THEN 1 ELSE CeilDiv(l, 255))
       /\ \A i \in 1..n :
            /\ Len(segments[i]) >= 3
            /\ WithoutPbf(segments[i][1]) = WithoutPbf(packet[1])
            /\ segments[i][2] = packet[2]
            /\ segments[i][3] = Len(segments[i]) - 3
            /\ segments[i][3] <= 255
       /\ \A i \in 1..(n - 1) :
            /\ segments[i][3] = 255
            /\ GetPbf(segments[i][1]) = PbfIncomplete
       /\ GetPbf(segments[n][1]) = PbfCompleteOrFinal
       /\ l > 0 => segments[n][3] > 0
       /\ ConcatPayloads(segments) = SubSeq(packet, 4, Len(packet))

\* a packet of two full chunks went out as two segments, with no empty third
C39_Witness ==
  /\ Len(nci_write.packet) = 3 + 2 * 255
  /\ Len(nci_write.segments) = 2
  /\ GetPbf(nci_write.packet[1]) = 1
  /\ GetPbf(nci_write.segments[1][1]) = 1
  /\ GetPbf(nci_write.segments[2][1]) = 0
  /\ nci_write.segments[2][3] = 255

\* a packet without payload went out as one segment of length zero
C39_EmptyWritten ==
  /\ Len(nci_write.packet) = 3
  /\ nci_write.segments = <<<<WithoutPbf(nci_write.packet[1]),
                              nci_write.packet[2], 0>>>>

(***************************************************************************)
(* The emulator's NCI transport (main.rs: NciReader::read)                 *)
(***************************************************************************)
\* how many segments wait in the socket at most
MaxSocket == 3

\* the segments up to and including the first one with PBF CompleteOrFinal
RECURSIVE TakenBy(_)
TakenBy(segments) ==
  IF segments = <<>> THEN <<>>
  ELSE IF GetPbf(Head(segments)[1]) = PbfCompleteOrFinal
  THEN <<Head(segments)>>
  ELSE <<Head(segments)>> \o TakenBy(Tail(segments))

\* the loop of NciReader::read over the segments it takes: complete_packet
\* has its first three octets overwritten by every header read and is
\* extended by every payload read
RECURSIVE ReadLoop(_, _)
ReadLoop(complete_packet, segments) ==
  IF segments = <<>> THEN complete_packet
  ELSE LET segment == Head(segments)
           payload_bytes == SubSeq(segment, 4, 3 + segment[3])
       IN ReadLoop(SubSeq(segment, 1, 3)
                     \o SubSeq(complete_packet, 4, Len(complete_packet))
                     \o payload_bytes,
                   Tail(segments))

\* NciReader::read returns: the socket holds a final segment
ReaderRead ==
  /\ \E i \in 1..Len(socket_in) :
       GetPbf(socket_in[i][1]) = PbfCompleteOrFinal
  /\ LET taken == TakenBy(socket_in)
     IN /\ read_ret' = [packet |-> ReadLoop(<<0, 0, 0>>, taken),
                        taken |-> taken]
        /\ socket_in' = SubSeq(socket_in, Len(taken) + 1, Len(socket_in))
  /\ UNCHANGED <<nci_write, rvars>>
  /\ UNCHANGED <<devices, logical_connections, nci_out, emu_rx,
                 config_parameters, device1, add_device>>
  /\ UNCHANGED <<hvars, avars>>
  /\ UNCHANGED <<cmds, cmd_q, sender_alive, abandoned, pending, timer,
                 handlers, rsink, nsink, got, out_cmd, in_cmd, answered,
                 rsp_seen, timed_out, disp, fatal>>
  /\ UNCHANGED <<conns, out_data, cb_events, api, gh, used, echoed>>

\* the host wrote one more segment to the socket
SocketArrive(segment) ==
  /\ Len(socket_in) < MaxSocket
  /\ socket_in' = Append(socket_in, segment)
  /\ UNCHANGED <<nci_write, read_ret, rvars>>
  /\ UNCHANGED <<devices, logical_connections, nci_out, emu_rx,
                 config_parameters, device1, add_device>>
  /\ UNCHANGED <<hvars, avars>>
  /\ UNCHANGED <<cmds, cmd_q, sender_alive, abandoned, pending, timer,
                 handlers, rsink, nsink, got, out_cmd, in_cmd, answered,
                 rsp_seen, timed_out, disp, fatal>>
  /\ UNCHANGED <<conns, out_data, cb_events, api, gh, used, echoed>>

\* segments of a data message on connection 0, of one on connection 1, of a
\* CoreSetConfig command and a CoreConnClose command in one piece
ReadSegments ==
  {<<16, 0, 1, 7>>, <<0, 0, 1, 8>>, <<16 + 1, 0, 2, 9, 10>>,
   <<32 + 16, 2, 1, 1>>, <<32, 2, 2, 0, 0>>, <<32, 5, 1, 0>>}

NextRead ==
  \/ \E segment \in ReadSegments : SocketArrive(segment)
  \/ ReaderRead

SpecRead == Init /\ [][NextRead]_vars

(***************************************************************************)
(* C40: reassembly by NciReader::read                                      *)
(***************************************************************************)
\* the stream a segment belongs to: the Conn ID of a data packet, MT with
\* GID and OID of a control packet
StreamOf(segment) ==
  IF MessageType(segment) = 0
  THEN <<0, segment[1] % 16>>
  ELSE <<MessageType(segment), segment[1] % 16, segment[2] % 64>>

RECURSIVE OfStream(_, _)
OfStream(segments, stream) ==
  IF segments = <<>> THEN <<>>
  ELSE IF StreamOf(Head(segments)) = stream
  THEN <<Head(segments)>> \o OfStream(Tail(segments), stream)
  ELSE OfStream(Tail(segments), stream)

\* C40: read accumulates Incomplete segments per stream and on a
\* CompleteOrFinal segment returns that segment's three header octets
\* followed by the payloads, in arrival order, of the segments of that
\* message only: segments of another stream are never merged into it
C40_Returned ==
  read_ret.taken /= <<>> =>
    LET final == read_ret.taken[Len(read_ret.taken)]
    IN read_ret.packet
         = SubSeq(final, 1, 3)
             \o ConcatPayloads(OfStream(read_ret.taken, StreamOf(final)))

\* the same for the reads that took segments of one stream only
C40_OneStream ==
  (/\ read_ret.taken /= <<>>
   /\ \A i \in 1..Len(read_ret.taken) :
        StreamOf(read_ret.taken[i]) = StreamOf(read_ret.taken[1]))
    => LET final == read_ret.taken[Len(read_ret.taken)]
       IN read_ret.packet
            = SubSeq(final, 1, 3) \o ConcatPayloads(read_ret.taken)

\* a data message of two segments was returned in one piece
C40_Reassembled ==
  /\ read_ret.taken = <<<<16, 0, 1, 7>>, <<0, 0, 1, 8>>>>
  /\ read_ret.packet = <<0, 0, 1, 7, 8>>
====
